---- MODULE Spec2Model ----
(***************************************************************************)
(* Model of the Baserow MCP server (stdio variant): the allow-list gate,   *)
(* the request validator, the table operations service, the composite      *)
(* workflows (get_bom, process_bpr, search_parts) and the response shaper, *)
(* over a small model of the remote Baserow store.                         *)
(***************************************************************************)
EXTENDS Integers, Sequences, FiniteSets, TLC

VARIABLES
    env,          \* process.env: TABLE_ID_* values (sequences of characters) and the token
    phase,        \* "boot" | "serving" | "exited": position of main()
    initialized,  \* AllowListManager.initialized
    tableMap,     \* AllowListManager.tableMap: table name -> id (0: no entry)
    store,        \* rows of the remote tables
    call,         \* the tool call in flight: its position and its locals
    outbound,     \* the requests the current tool call has sent to the remote store
    response,     \* what handleToolCall returned for the current tool call
    observed      \* the last completed calls <<request, response>> (comparison specifications only)

vars == <<env, phase, initialized, tableMap, store, call, outbound, response, observed>>

(***************************************************************************)
(* Bounds of the model                                                     *)
(***************************************************************************)
MaxItems == 3        \* longest parts_usage list of a process_bpr request
MaxUsageRows == 3    \* mo_parts_usage rows the remote store holds before further BPRs are not started
RemotePageCap == 3   \* rows the remote store serves per page (stands for its 200-row page limit)
MaxTerms == 2        \* longest search_terms list
MaxBatch == 2        \* longest records list of a batch_create request
MaxFaults == 1       \* most creates of one batch_create chunk that get another reply than a JSON 2xx
MaxResolveItems == 2 \* longest parts_usage list of the process_bpr requests of SpecResolve
MaxRecords == 27     \* longest results list handed to the response shaper in SpecShaper

(***************************************************************************)
(* Program constants                                                       *)
(***************************************************************************)
MAX_RESPONSE_CHARS == 50000
MAX_RECORDS_PER_PAGE == 25
MO_STATUS_CLOSED == 4554566
DEDUCTION_METHOD_ACTUAL_USAGE == 4669016
ALLOWED_TABLE_NAMES ==
    <<"manufacturing_orders", "mo_parts_usage", "raw_material_lots",
      "inventory_transactions", "finished_goods", "cycle_counts",
      "fg_parts_mapping", "label_inventory", "parts">>
TABLE_CONFIGS == ALLOWED_TABLE_NAMES   \* one config (name, envKey) per name, in this order
ERROR_CODES ==
    [VALIDATION_ERROR |-> "VALIDATION_ERROR",
     UNAUTHORIZED_TABLE |-> "UNAUTHORIZED_TABLE_ACCESS",
     API_ERROR |-> "BASEROW_API_ERROR",
     CONNECTION_ERROR |-> "CONNECTION_ERROR",
     INTERNAL_ERROR |-> "INTERNAL_ERROR",
     UNKNOWN_COMMAND |-> "UNKNOWN_COMMAND"]

(***************************************************************************)
(* Sequences and strings.  Text that the code lower-cases or searches is a *)
(* sequence of characters; text it only compares is a TLA+ string.         *)
(***************************************************************************)
Range(s) == {s[i] : i \in DOMAIN s}
Min(a, b) == IF a <= b THEN a ELSE b
SeqsUpTo(S, n) == UNION {[1..k -> S] : k \in 0..n}
Has(f, k) == k \in DOMAIN f

\* Array.prototype.filter
RECURSIVE SelectIdx(_, _, _)
SelectIdx(s, keep, i) ==
    IF i > Len(s) THEN <<>>
    ELSE (IF i \in keep THEN <<s[i]>> ELSE <<>>) \o SelectIdx(s, keep, i + 1)

toLowerCaseChar(c) == CASE c = "A" -> "a" [] c = "B" -> "b" [] OTHER -> c
toLowerCase(s) == [i \in DOMAIN s |-> toLowerCaseChar(s[i])]
\* String.prototype.includes
includes(hay, needle) ==
    \E i \in 0..(Len(hay) - Len(needle)) : SubSeq(hay, i + 1, i + Len(needle)) = needle

Digits == <<"0", "1", "2", "3", "4", "5", "6", "7", "8", "9">>
IsDigit(c) == c \in Range(Digits)
DigitVal(c) == (CHOOSE i \in DOMAIN Digits : Digits[i] = c) - 1
NaN == -1000000
\* parseInt(str, 10): optional sign, then the longest prefix of digits; NaN without one
RECURSIVE DigitPrefix(_, _, _)
DigitPrefix(s, i, acc) ==
    IF i <= Len(s) /\ IsDigit(s[i]) THEN DigitPrefix(s, i + 1, acc * 10 + DigitVal(s[i])) ELSE acc
parseInt(s) ==
    LET neg  == Len(s) > 0 /\ s[1] = "-"
        from == IF neg THEN 2 ELSE 1
    IN  IF from > Len(s) \/ ~IsDigit(s[from]) THEN NaN
        ELSE IF neg THEN 0 - DigitPrefix(s, from, 0) ELSE DigitPrefix(s, from, 0)

(***************************************************************************)
(* Allow-list gate (AllowListManager)                                      *)
(***************************************************************************)
NoTables == [n \in Range(ALLOWED_TABLE_NAMES) |-> 0]

\* initialize(): <<threw, tableMap>> for a process environment e
RECURSIVE initializeFrom(_, _, _)
initializeFrom(e, i, map) ==
    IF i > Len(TABLE_CONFIGS) THEN
        IF \A n \in DOMAIN map : map[n] = 0 THEN [threw |-> TRUE, map |-> map]
        ELSE [threw |-> FALSE, map |-> map]
    ELSE LET name == TABLE_CONFIGS[i]
             tableIdStr == e.tables[name]
             tableId == parseInt(tableIdStr)
         IN  IF tableIdStr = <<>> THEN initializeFrom(e, i + 1, map)
             ELSE IF tableId = NaN \/ tableId <= 0 THEN [threw |-> TRUE, map |-> map]
             ELSE initializeFrom(e, i + 1, [map EXCEPT ![name] = tableId])
initialize(e) == initializeFrom(e, 1, NoTables)
\* a slip: the call reads the environment again although the manager is initialized
initializeAgain_unguarded(e) == initializeFrom(e, 1, tableMap)
\* initialize() on the manager as it is: if (this.initialized) return
initializeAgain(e) ==
    IF initialized THEN [threw |-> FALSE, map |-> tableMap] ELSE initializeFrom(e, 1, tableMap)

isTableAllowed(tableName) ==
    LET isAllowed == tableName \in Range(ALLOWED_TABLE_NAMES)
        isConfigured == isAllowed /\ tableMap[tableName] # 0
    IN  isAllowed /\ isConfigured

UnauthorizedTableAccessError(tableName) ==
    [type |-> "UnauthorizedTableAccessError", tableName |-> tableName]

\* a thrown error, or a returned value
Throw(e) == [threw |-> TRUE, err |-> e]
Return(v) == [threw |-> FALSE, val |-> v]

getTableId(tableName) ==
    IF ~isTableAllowed(tableName) THEN Throw(UnauthorizedTableAccessError(tableName))
    ELSE IF tableMap[tableName] = 0 THEN Throw(UnauthorizedTableAccessError(tableName))
    ELSE Return(tableMap[tableName])

\* a plausible slip: reads the map directly and falls back to identifier 0
validateAndGetTableId_fallback(tableName) ==
    IF tableName \in DOMAIN tableMap THEN Return(tableMap[tableName]) ELSE Return(0)
validateAndGetTableId(tableName) ==
    IF ~isTableAllowed(tableName) THEN Throw(UnauthorizedTableAccessError(tableName))
    ELSE getTableId(tableName)

(***************************************************************************)
(* The remote store.  A table is a sequence of rows; a row is a function   *)
(* from field names to values with an "id".  Tables the model does not     *)
(* read back (inventory_transactions, cycle_counts) hold no tracked rows.  *)
(***************************************************************************)
RemoteTableIds ==
    [manufacturing_orders |-> 11, mo_parts_usage |-> 12, raw_material_lots |-> 13,
     inventory_transactions |-> 14, finished_goods |-> 15, cycle_counts |-> 16,
     fg_parts_mapping |-> 17, label_inventory |-> 18, parts |-> 19]
RemoteTableOf(tableId) ==
    IF \E n \in DOMAIN RemoteTableIds : RemoteTableIds[n] = tableId
    THEN CHOOSE n \in DOMAIN RemoteTableIds : RemoteTableIds[n] = tableId
    ELSE "no_such_table"
RowsOf(st, tableId) ==
    IF RemoteTableOf(tableId) \in DOMAIN st THEN st[RemoteTableOf(tableId)] ELSE <<>>

\* what the remote store can do with one request
Replies == {"ok_json", "ok_text", "ok_badjson", "err_json", "err_text", "err_badjson", "no_response"}
ReplyOk(reply) == reply \in {"ok_json", "ok_text", "ok_badjson"}
TextBody == [text |-> TRUE]
IsText(body) == body = TextBody

\* rows matching filter__<field>__equal=<value> for every filter, in table order
MatchingRows(rows, filters) ==
    SelectIdx(rows, {i \in DOMAIN rows :
                        \A f \in DOMAIN filters : Has(rows[i], f) /\ rows[i][f] = filters[f]}, 1)

\* GET .../rows/table/<id>/?page=&size=&filter__..: the page of a list response
\* (url.page = 0: no page parameter, the store serves page 1)
ListPage(rows, url) ==
    LET matching == MatchingRows(rows, url.filters)
        page == IF url.page = 0 THEN 1 ELSE url.page
        eff == Min(url.size, RemotePageCap)
        first == (page - 1) * eff + 1
        last == Min(page * eff, Len(matching))
    IN  [count |-> Len(matching),
         next |-> page * eff < Len(matching),
         previous |-> page > 1,
         results |-> SubSeq(matching, first, last),
         valid |-> page = 1 \/ first <= Len(matching)]

NextRowId(rows, tableId) ==
    IF rows = <<>> THEN tableId * 10 + 1
    ELSE 1 + CHOOSE m \in {rows[i].id : i \in DOMAIN rows} :
                 \A i \in DOMAIN rows : rows[i].id <= m

\* POST: the row the store creates
CreatedRow(st, tableId, data) == data @@ [id |-> NextRowId(RowsOf(st, tableId), tableId)]
\* PATCH: partial update of the fields supplied
PatchedRow(row, data) == [f \in DOMAIN row \cup DOMAIN data |-> IF f \in DOMAIN data THEN data[f] ELSE row[f]]
RowExists(st, tableId, recordId) ==
    \E i \in DOMAIN RowsOf(st, tableId) : RowsOf(st, tableId)[i].id = recordId

\* the store after a write the remote accepted
StoreAfter(st, req) ==
    LET t == RemoteTableOf(req.tableId)
    IN  IF t \notin DOMAIN st THEN st
        ELSE CASE req.method = "POST" ->
                    [st EXCEPT ![t] = Append(@, CreatedRow(st, req.tableId, req.body))]
               [] req.method = "PATCH" ->
                    [st EXCEPT ![t] = [i \in DOMAIN @ |->
                        IF @[i].id = req.recordId THEN PatchedRow(@[i], req.body) ELSE @[i]]]
               [] req.method = "DELETE" ->
                    [st EXCEPT ![t] = SelectIdx(@, {i \in DOMAIN @ : @[i].id # req.recordId}, 1)]
               [] OTHER -> st

\* a table whose listing never ends (it grows as fast as it is read): every
\* page of it holds the rows of the first page and names a next page
Endless(st, tableId) == Has(st, "endless") /\ RemoteTableOf(tableId) \in st.endless
\* the page of such a listing, given the rows that match the filters
EndlessPage(matching, url) ==
    [count |-> Len(matching), next |-> TRUE, previous |-> url.page > 1,
     results |-> SubSeq(matching, 1, Min(Min(url.size, RemotePageCap), Len(matching))), valid |-> TRUE]
ListPageOf(st, req) ==
    IF Endless(st, req.tableId) THEN EndlessPage(MatchingRows(RowsOf(st, req.tableId), req.filters), req)
    ELSE ListPage(RowsOf(st, req.tableId), req)

\* the JSON body the store answers a request with when it answers 2xx
BodyFor(st, req) ==
    CASE req.method = "GET" -> ListPageOf(st, req)
      [] req.method = "POST" -> CreatedRow(st, req.tableId, req.body)
      [] req.method = "PATCH" ->
            IF RowExists(st, req.tableId, req.recordId)
            THEN PatchedRow(CHOOSE r \in Range(RowsOf(st, req.tableId)) : r.id = req.recordId, req.body)
            ELSE req.body @@ [id |-> req.recordId]
      [] OTHER -> TextBody

\* replies the store can give to this request: a 2xx needs a request it can serve
RepliesFor(st, req) ==
    LET tracked == RemoteTableOf(req.tableId) \in DOMAIN st
        servable ==
            CASE req.method = "GET" -> Endless(st, req.tableId) \/ ListPage(RowsOf(st, req.tableId), req).valid
              [] req.method \in {"PATCH", "DELETE"} ->
                    ~tracked \/ RowExists(st, req.tableId, req.recordId)
              [] OTHER -> TRUE
    IN  {r \in Replies : ReplyOk(r) => servable /\ (req.method = "DELETE" => r = "ok_text")}

(***************************************************************************)
(* BaserowClient                                                           *)
(***************************************************************************)
BaserowApiError(statusCode, responseBody) ==
    [type |-> "BaserowApiError", statusCode |-> statusCode, responseBody |-> responseBody]
BaserowConnectionError == [type |-> "BaserowConnectionError"]
TypeError == [type |-> "Error", name |-> "TypeError"]

buildListUrl(tableId, filters, page, size) ==
    [method |-> "GET", tableId |-> tableId, page |-> page, size |-> size, filters |-> filters]

\* request<T>(): the outcome of one fetch, given the store's reply and the body it carries
request(reply, body) ==
    CASE reply = "no_response" -> Throw(BaserowConnectionError)
      [] reply \in {"ok_badjson", "err_badjson"} -> Throw(BaserowConnectionError)
      [] reply = "err_json" -> Throw(BaserowApiError(400, "json"))
      [] reply = "err_text" -> Throw(BaserowApiError(400, "text"))
      [] reply = "ok_text" -> Return(TextBody)
      [] OTHER -> Return(body)

(***************************************************************************)
(* Request validator (MCPRequestSchema).  A tool argument is a JSON value  *)
(* with its type; an argument object is a function from field names to    *)
(* such values, and an absent field is absent from its domain.             *)
(***************************************************************************)
Num(n) == [type |-> "number", val |-> n]
Str(s) == [type |-> "string", val |-> s]
Arr(s) == [type |-> "array", val |-> s]
Obj(f) == [type |-> "object", val |-> f]

Commands == {"list_tables", "read", "create", "update", "delete", "batch_create",
             "get_bom", "process_bpr", "search_parts"}

PartsUsageItemSchema ==
    <<[name |-> "bom_id", required |-> TRUE, kind |-> "posint"],
      [name |-> "quantity", required |-> TRUE, kind |-> "number"],
      [name |-> "lot_id", required |-> FALSE, kind |-> "posint"],
      [name |-> "lot_number", required |-> FALSE, kind |-> "string"],
      [name |-> "label_id", required |-> FALSE, kind |-> "posint"],
      [name |-> "label_code", required |-> FALSE, kind |-> "string"],
      [name |-> "waste", required |-> FALSE, kind |-> "number"],
      [name |-> "notes", required |-> FALSE, kind |-> "string"]>>

SchemaOf(command) ==
    CASE command = "list_tables" -> <<>>
      [] command = "read" ->
            <<[name |-> "table", required |-> TRUE, kind |-> "table"],
              [name |-> "filters", required |-> FALSE, kind |-> "object"],
              [name |-> "page", required |-> FALSE, kind |-> "posint"],
              [name |-> "size", required |-> FALSE, kind |-> "size"]>>
      [] command = "create" ->
            <<[name |-> "table", required |-> TRUE, kind |-> "table"],
              [name |-> "data", required |-> TRUE, kind |-> "object"]>>
      [] command = "update" ->
            <<[name |-> "table", required |-> TRUE, kind |-> "table"],
              [name |-> "record_id", required |-> TRUE, kind |-> "posint"],
              [name |-> "data", required |-> TRUE, kind |-> "object"]>>
      [] command = "delete" ->
            <<[name |-> "table", required |-> TRUE, kind |-> "table"],
              [name |-> "record_id", required |-> TRUE, kind |-> "posint"]>>
      [] command = "batch_create" ->
            <<[name |-> "table", required |-> TRUE, kind |-> "table"],
              [name |-> "records", required |-> TRUE, kind |-> "records"]>>
      [] command = "get_bom" ->
            <<[name |-> "fg_id", required |-> FALSE, kind |-> "posint"],
              [name |-> "isku", required |-> FALSE, kind |-> "string"]>>
      [] command = "process_bpr" ->
            <<[name |-> "mo_number", required |-> TRUE, kind |-> "string"],
              [name |-> "completion_date", required |-> TRUE, kind |-> "string"],
              [name |-> "gross_produced", required |-> TRUE, kind |-> "string"],
              [name |-> "parts_usage", required |-> TRUE, kind |-> "items"],
              [name |-> "entered_by", required |-> FALSE, kind |-> "string"]>>
      [] OTHER ->
            <<[name |-> "search_terms", required |-> TRUE, kind |-> "strings"]>>

\* does the JSON value v satisfy a leaf schema
LeafOk(kind, v) ==
    CASE kind = "table" -> v.type = "string" /\ v.val \in Range(ALLOWED_TABLE_NAMES)
      [] kind = "posint" -> v.type = "number" /\ v.val > 0
      [] kind = "size" -> v.type = "number" /\ v.val > 0 /\ v.val <= 200
      [] kind = "number" -> v.type = "number"
      [] kind = "string" -> v.type = "string"
      [] kind = "object" -> v.type = "object"
      [] OTHER -> FALSE

FieldsOk(obj, schema) ==
    \A i \in DOMAIN schema :
        IF Has(obj, schema[i].name) THEN LeafOk(schema[i].kind, obj[schema[i].name])
        ELSE ~schema[i].required

ValueOk(kind, v) ==
    CASE kind = "records" ->
            v.type = "array" /\ Len(v.val) <= 50 /\ \A i \in DOMAIN v.val : v.val[i].type = "object"
      [] kind = "items" ->
            v.type = "array" /\ \A i \in DOMAIN v.val :
                v.val[i].type = "object" /\ FieldsOk(v.val[i].val, PartsUsageItemSchema)
      [] kind = "strings" ->
            v.type = "array" /\ \A i \in DOMAIN v.val : v.val[i].type = "string"
      [] OTHER -> LeafOk(kind, v)

\* the fields zod reports: path of every field that fails its schema, in schema order
Issues(obj, schema) ==
    SelectIdx([i \in DOMAIN schema |-> schema[i].name],
              {i \in DOMAIN schema :
                  IF Has(obj, schema[i].name) THEN ~ValueOk(schema[i].kind, obj[schema[i].name])
                  ELSE schema[i].required}, 1)

\* the parsed value: types dropped, unknown keys stripped
Strip(obj, schema) ==
    [f \in {schema[i].name : i \in DOMAIN schema} \cap DOMAIN obj |-> obj[f].val]
Parsed(kind, v) ==
    CASE kind = "items" -> [i \in DOMAIN v.val |-> Strip(v.val[i].val, PartsUsageItemSchema)]
      [] kind \in {"records", "strings"} -> [i \in DOMAIN v.val |-> v.val[i].val]
      [] OTHER -> v.val
KindOf(schema, f) == schema[CHOOSE i \in DOMAIN schema : schema[i].name = f].kind

ValidationError(message) == [type |-> "ValidationError", message |-> message]

\* commandMap[toolName]: the command of a known tool; a member inherited from
\* Object.prototype (a function) for a name such as toString; else undefined
InheritedKeys == {"toString", "constructor"}
Function == [type |-> "function"]
NoCommand == [type |-> "undefined"]
commandMap(toolName) ==
    IF toolName \in Commands THEN Str(toolName)
    ELSE IF toolName \in InheritedKeys THEN Function
    ELSE NoCommand

\* buildRequest(): { command, ...args } (a command key of args replaces the
\* mapped command), or Error('Unknown tool') when the map gives nothing
buildRequest(toolName, args) ==
    LET command == commandMap(toolName)
    IN  IF command = NoCommand THEN Throw([type |-> "Error", name |-> "Unknown tool"])
        ELSE Return(args @@ [command |-> command])

\* validateRequest(): MCPRequestSchema.parse, a ZodError becoming a ValidationError;
\* the union is discriminated by the command of the request
validateRequest(built) ==
    IF built.command.type # "string" \/ built.command.val \notin Commands
    THEN Throw(ValidationError(<<"command">>))
    ELSE LET schema == SchemaOf(built.command.val)
             issues == Issues(built, schema)
         IN  IF issues # <<>> THEN Throw(ValidationError(issues))
             ELSE Return([f \in {schema[i].name : i \in DOMAIN schema} \cap DOMAIN built |->
                             Parsed(KindOf(schema, f), built[f])]
                         @@ [command |-> built.command.val])

(***************************************************************************)
(* Response builders and error conversion                                  *)
(***************************************************************************)
successResponse(data) == [success |-> TRUE, data |-> data]
successResponseWith(data, metadata) == [success |-> TRUE, data |-> data, metadata |-> metadata]
errorResponse(code, message) == [success |-> FALSE, error |-> [code |-> code, message |-> message]]
errorResponseWith(code, message, details) ==
    [success |-> FALSE, error |-> [code |-> code, message |-> message, details |-> details]]

\* a slip: an error of no known class is thrown on instead of converted
handleError_rethrow(error) ==
    CASE error.type = "ValidationError" -> errorResponse(ERROR_CODES.VALIDATION_ERROR, error.message)
      [] error.type = "UnauthorizedTableAccessError" ->
            errorResponseWith(ERROR_CODES.UNAUTHORIZED_TABLE, "Access denied", [table |-> error.tableName])
      [] error.type = "BaserowApiError" ->
            errorResponseWith(ERROR_CODES.API_ERROR, "Baserow API returned",
                              [statusCode |-> error.statusCode, response |-> error.responseBody])
      [] error.type = "BaserowConnectionError" ->
            errorResponse(ERROR_CODES.CONNECTION_ERROR, "Failed to connect to Baserow API")
      [] OTHER -> [thrown |-> error]
handleError(error) ==
    CASE error.type = "ValidationError" -> errorResponse(ERROR_CODES.VALIDATION_ERROR, error.message)
      [] error.type = "UnauthorizedTableAccessError" ->
            errorResponseWith(ERROR_CODES.UNAUTHORIZED_TABLE, "Access denied", [table |-> error.tableName])
      [] error.type = "BaserowApiError" ->
            errorResponseWith(ERROR_CODES.API_ERROR, "Baserow API returned",
                              [statusCode |-> error.statusCode, response |-> error.responseBody])
      [] error.type = "BaserowConnectionError" ->
            errorResponse(ERROR_CODES.CONNECTION_ERROR, "Failed to connect to Baserow API")
      [] error.type = "Error" -> errorResponse(ERROR_CODES.INTERNAL_ERROR, error.name)
      [] OTHER -> errorResponse(ERROR_CODES.INTERNAL_ERROR, "An unexpected error occurred")

(***************************************************************************)
(* Response shaper                                                         *)
(***************************************************************************)
FIELDS_TO_SIMPLIFY == {"Manufacturing Orders", "FG Parts Mapping", "MO Parts Usage", "Labels"}

\* a link-reference array of a known-large field, simplified
simplifyLinks(value) ==
    IF Len(value) = 0 THEN <<>>
    ELSE IF Len(value) <= 3 THEN [i \in DOMAIN value |-> [id |-> value[i].id, value |-> value[i].value]]
    ELSE [_count |-> Len(value), _first |-> [id |-> value[1].id]]
simplifyRecord(record) ==
    [k \in DOMAIN record |-> IF k \in FIELDS_TO_SIMPLIFY THEN simplifyLinks(record[k]) ELSE record[k]]

\* JSON.stringify(...).length: a row is 40 characters plus those of its long text and its links
RECURSIVE SumOver(_, _)
SumOver(s, i) == IF i > Len(s) THEN 0 ELSE s[i] + SumOver(s, i + 1)
RowChars(row) ==
    40 + (IF Has(row, "Description") THEN row["Description"].len ELSE 0)
       + SumOver([i \in 1..Cardinality(DOMAIN row \cap FIELDS_TO_SIMPLIFY) |-> 30], 1)
jsonLength(results) ==
    2 + SumOver([i \in DOMAIN results |-> RowChars(results[i])], 1)
      + (IF Len(results) > 1 THEN Len(results) - 1 ELSE 0)

\* a slip: the list is cut to the record limit without a note
simplifyResponse_noNote(resp) ==
    [count |-> resp.count, next |-> resp.next, previous |-> resp.previous,
     results |-> SubSeq(resp.results, 1, Min(Len(resp.results), MAX_RECORDS_PER_PAGE))]
simplifyResponse(resp) ==
    LET limitedResults == SubSeq(resp.results, 1, Min(Len(resp.results), MAX_RECORDS_PER_PAGE))
        simplifiedResults == [i \in DOMAIN limitedResults |-> simplifyRecord(limitedResults[i])]
    IN  IF jsonLength(simplifiedResults) > MAX_RESPONSE_CHARS /\ Len(simplifiedResults) > 10
        THEN [count |-> resp.count, next |-> resp.next, previous |-> resp.previous,
              results |-> SubSeq(simplifiedResults, 1, 10), _note |-> "truncated"]
        ELSE IF Len(limitedResults) < Len(resp.results)
        THEN [count |-> resp.count, next |-> resp.next, previous |-> resp.previous,
              results |-> simplifiedResults, _note |-> "limited"]
        ELSE [count |-> resp.count, next |-> resp.next, previous |-> resp.previous,
              results |-> simplifiedResults]

(***************************************************************************)
(* Table operations service (TablesService).  One call either throws       *)
(* before sending anything, or sends one request, to which the store       *)
(* gives `reply'.  The result: what the call returned or threw (out), the  *)
(* requests sent, the store afterwards, and whether the store can give     *)
(* that reply at all.  `partial' is the request to send, its tableId       *)
(* filled in by validateAndGetTableId.                                     *)
(***************************************************************************)
serviceCall(tableName, partial, reply) ==
    LET t == validateAndGetTableId(tableName)
    IN  IF t.threw THEN [out |-> t, sent |-> <<>>, st |-> store, possible |-> TRUE]
        ELSE LET req == [partial EXCEPT !.tableId = t.val]
             IN  [out |-> request(reply, BodyFor(store, req)),
                  sent |-> <<req @@ [reply |-> reply]>>,
                  st |-> IF ReplyOk(reply) THEN StoreAfter(store, req) ELSE store,
                  possible |-> reply \in RepliesFor(store, req)]

readRecords(tableName, filters, page, size, reply) ==
    LET r == serviceCall(tableName, buildListUrl(0, filters, page, size), reply)
    IN  \* logging response.results.length of a body that is not a list response throws
        IF ~r.out.threw /\ IsText(r.out.val) THEN [r EXCEPT !.out = Throw(TypeError)] ELSE r
createRecord(tableName, data, reply) ==
    serviceCall(tableName, [method |-> "POST", tableId |-> 0, body |-> data], reply)
updateRecord(tableName, recordId, data, reply) ==
    serviceCall(tableName, [method |-> "PATCH", tableId |-> 0, recordId |-> recordId, body |-> data], reply)
deleteRecord(tableName, recordId, reply) ==
    serviceCall(tableName, [method |-> "DELETE", tableId |-> 0, recordId |-> recordId], reply)
listAllowedTables ==
    SelectIdx([i \in DOMAIN TABLE_CONFIGS |-> [name |-> TABLE_CONFIGS[i], id |-> tableMap[TABLE_CONFIGS[i]]]],
              {i \in DOMAIN TABLE_CONFIGS : tableMap[TABLE_CONFIGS[i]] # 0}, 1)

(***************************************************************************)
(* JavaScript Map with insertion order: a sequence of <<key, value>>       *)
(***************************************************************************)
MapHas(m, k) == \E i \in DOMAIN m : m[i][1] = k
MapGet(m, k) == (CHOOSE e \in Range(m) : e[1] = k)[2]
MapSet(m, k, v) ==
    IF MapHas(m, k) THEN [i \in DOMAIN m |-> IF m[i][1] = k THEN <<k, v>> ELSE m[i]]
    ELSE Append(m, <<k, v>>)

undefined == 0 - 1
\* record.id of a created record (undefined when the body was not a JSON record)
IdOf(record) == IF IsText(record) THEN undefined ELSE record.id

(***************************************************************************)
(* Composite workflow engine: the computations between two remote calls    *)
(***************************************************************************)
Field(row, f, default) == IF Has(row, f) THEN row[f] ELSE default

\* a slip: a mapping with a Part link is taken whether or not it links a Finished Good
RECURSIVE buildBomLookup_partOnly(_, _, _, _)
buildBomLookup_partOnly(results, bomIds, i, m) ==
    IF i > Len(results) THEN m
    ELSE LET mapping == results[i]
             part == Field(mapping, "Part", <<>>)
             finishedGood == Field(mapping, "Finished Good", <<>>)
         IN  IF mapping.id \in Range(bomIds) /\ Len(part) > 0
             THEN buildBomLookup_partOnly(results, bomIds, i + 1,
                      MapSet(m, mapping.id,
                             [part_id |-> part[1].id,
                              fg_id |-> IF Len(finishedGood) > 0 THEN finishedGood[1].id ELSE 0,
                              part_name |-> part[1].value]))
             ELSE buildBomLookup_partOnly(results, bomIds, i + 1, m)
\* process_bpr step 2: bom_id -> { part_id, fg_id, part_name } over the fetched mappings
RECURSIVE buildBomLookup(_, _, _, _)
buildBomLookup(results, bomIds, i, m) ==
    IF i > Len(results) THEN m
    ELSE LET mapping == results[i]
             part == Field(mapping, "Part", <<>>)
             finishedGood == Field(mapping, "Finished Good", <<>>)
         IN  IF mapping.id \in Range(bomIds) /\ Len(part) > 0 /\ Len(finishedGood) > 0
             THEN buildBomLookup(results, bomIds, i + 1,
                      MapSet(m, mapping.id, [part_id |-> part[1].id, fg_id |-> finishedGood[1].id,
                                             part_name |-> part[1].value]))
             ELSE buildBomLookup(results, bomIds, i + 1, m)
\* a slip: only the first bom_id is verified
missingBomIds_firstOnly(bomIds, bomLookup) ==
    IF bomIds # <<>> /\ ~MapHas(bomLookup, bomIds[1]) THEN <<bomIds[1]>> ELSE <<>>
missingBomIds(bomIds, bomLookup) ==
    SelectIdx(bomIds, {i \in DOMAIN bomIds : ~MapHas(bomLookup, bomIds[i])}, 1)

\* process_bpr step 2.5: what has to be looked up
lotNumbersToLookup(partsUsage) ==
    LET wanted == {i \in DOMAIN partsUsage :
                      Field(partsUsage[i], "lot_number", "") # "" /\ ~Has(partsUsage[i], "lot_id")}
    IN  [i \in DOMAIN SelectIdx(partsUsage, wanted, 1) |-> SelectIdx(partsUsage, wanted, 1)[i].lot_number]
labelCodesToLookup(partsUsage) ==
    LET wanted == {i \in DOMAIN partsUsage :
                      Field(partsUsage[i], "label_code", <<>>) # <<>> /\ ~Has(partsUsage[i], "label_id")}
    IN  [i \in DOMAIN SelectIdx(partsUsage, wanted, 1) |-> SelectIdx(partsUsage, wanted, 1)[i].label_code]

\* a slip: the last fetched lot is taken for every requested lot number
buildLotLookup_anyLot(results, lotNumbers, i, m) ==
    IF results = <<>> THEN <<>>
    ELSE [j \in DOMAIN lotNumbers |-> <<lotNumbers[j], results[Len(results)].id>>]
RECURSIVE buildLotLookup(_, _, _, _)
buildLotLookup(results, lotNumbers, i, m) ==
    IF i > Len(results) THEN m
    ELSE LET lot == results[i]
             internalLotNumber == Field(lot, "Internal Lot Number", "")
         IN  IF internalLotNumber # "" /\ internalLotNumber \in Range(lotNumbers)
             THEN buildLotLookup(results, lotNumbers, i + 1, MapSet(m, internalLotNumber, lot.id))
             ELSE buildLotLookup(results, lotNumbers, i + 1, m)

labelMatches(code, labelCode) ==
    \/ toLowerCase(code) = toLowerCase(labelCode)
    \/ includes(toLowerCase(labelCode), toLowerCase(code))
    \/ includes(toLowerCase(code), toLowerCase(labelCode))
RECURSIVE buildLabelLookup(_, _, _, _)
buildLabelLookup(results, labelCodes, i, m) ==
    IF i > Len(results) THEN m
    ELSE LET label == results[i]
             partBomId == Field(label, "Part BOM ID", <<>>)
             labelCode == IF Len(partBomId) > 0 THEN partBomId[1].value ELSE <<>>
             hits == {j \in DOMAIN labelCodes : labelMatches(labelCodes[j], labelCode)}
         IN  IF labelCode # <<>> /\ hits # {}
             THEN LET matchedCode == labelCodes[CHOOSE j \in hits : \A h \in hits : j <= h]
                  IN  buildLabelLookup(results, labelCodes, i + 1, MapSet(m, matchedCode, label.id))
             ELSE buildLabelLookup(results, labelCodes, i + 1, m)

\* a slip: the Finished Good link is filled with the Part identifier
usageData_partAsFinishedGood(part, moId, moNumber, enteredBy, bomLookup, lotLookup, labelLookup) ==
    LET bomInfo == MapGet(bomLookup, part.bom_id)
    IN  ("Manufacturing Order" :> <<moId>>) @@ ("Parts" :> <<bomInfo.part_id>>)
        @@ ("Finished Goods" :> <<bomInfo.part_id>>) @@ ("Actual Quantity Used" :> part.quantity)
        @@ ("Notes" :> "From BPR scan") @@ ("Entered By" :> "Alexa via Claude")
\* process_bpr step 3: the usage record of one parts_usage item
usageData(part, moId, moNumber, enteredBy, bomLookup, lotLookup, labelLookup) ==
    LET bomInfo == MapGet(bomLookup, part.bom_id)
        resolvedLotId ==
            IF Has(part, "lot_id") THEN part.lot_id
            ELSE IF Field(part, "lot_number", "") # "" /\ MapHas(lotLookup, part.lot_number)
                 THEN MapGet(lotLookup, part.lot_number) ELSE 0
        resolvedLabelId ==
            IF Has(part, "label_id") THEN part.label_id
            ELSE IF Field(part, "label_code", <<>>) # <<>> /\ MapHas(labelLookup, part.label_code)
                 THEN MapGet(labelLookup, part.label_code) ELSE 0
    IN  ("Manufacturing Order" :> <<moId>>) @@ ("Parts" :> <<bomInfo.part_id>>)
        @@ ("Finished Goods" :> <<bomInfo.fg_id>>) @@ ("Actual Quantity Used" :> part.quantity)
        @@ ("Notes" :> IF Field(part, "notes", "") # "" THEN part.notes ELSE "From BPR scan")
        @@ ("Entered By" :> IF enteredBy # "" THEN enteredBy ELSE "Alexa via Claude")
        @@ (IF resolvedLotId # 0 THEN ("RM Lot Inventory Used" :> <<resolvedLotId>>) ELSE <<>>)
        @@ (IF resolvedLabelId # 0 THEN ("Label Inventory Used" :> <<resolvedLabelId>>) ELSE <<>>)
        @@ (IF Has(part, "waste") THEN ("Waste/Spillage" :> part.waste) ELSE <<>>)

\* a slip: the two completion flags are left out of the update
updateData_noFlags(completionDate, grossProduced) ==
    ("MO Status" :> MO_STATUS_CLOSED) @@ ("Deduction Method" :> DEDUCTION_METHOD_ACTUAL_USAGE)
    @@ ("MFG Date Completed" :> completionDate) @@ ("Gross Produced" :> grossProduced)
\* process_bpr step 4: the single update of the Manufacturing Order
updateData(completionDate, grossProduced) ==
    ("MO Status" :> MO_STATUS_CLOSED) @@ ("Deduction Method" :> DEDUCTION_METHOD_ACTUAL_USAGE)
    @@ ("MFG Date Completed" :> completionDate) @@ ("Gross Produced" :> grossProduced)
    @@ ("Actual Usage Complete" :> TRUE) @@ ("MO Inventory Processed" :> TRUE)

\* parseFloat(String(value || '0')) of a quantity written without a fraction
parseFloat(value) == IF value = <<>> THEN 0 ELSE parseInt(value)

\* a slip: a mapping is taken when any entry of its Finished Good link is the target
buildBomItems_anyEntry(results, targetFgId, i) ==
    LET keep == {k \in DOMAIN results :
                    /\ Field(results[k], "Part", <<>>) # <<>>
                    /\ \E e \in DOMAIN Field(results[k], "Finished Good", <<>>) :
                          results[k]["Finished Good"][e].id = targetFgId}
        kept == SelectIdx(results, keep, 1)
    IN  [k \in DOMAIN kept |->
            [mapping_id |-> kept[k].id, part_id |-> kept[k]["Part"][1].id,
             part_name |-> kept[k]["Part"][1].value,
             quantity_per_unit |-> parseFloat(Field(kept[k], "Quantity", <<>>)),
             part_role |-> Field(kept[k], "Part Role", "Unknown")]]
\* get_bom: the items of the mappings that link to targetFgId and have a Part link
RECURSIVE buildBomItems(_, _, _)
buildBomItems(results, targetFgId, i) ==
    IF i > Len(results) THEN <<>>
    ELSE LET mapping == results[i]
             finishedGood == Field(mapping, "Finished Good", <<>>)
             part == Field(mapping, "Part", <<>>)
         IN  (IF Len(finishedGood) > 0 /\ finishedGood[1].id = targetFgId /\ Len(part) > 0
              THEN <<[mapping_id |-> mapping.id, part_id |-> part[1].id, part_name |-> part[1].value,
                      quantity_per_unit |-> parseFloat(Field(mapping, "Quantity", <<>>)),
                      part_role |-> Field(mapping, "Part Role", "Unknown")]>>
              ELSE <<>>) \o buildBomItems(results, targetFgId, i + 1)

\* search_parts: the first non-empty candidate name of a part
partNameOf(part) ==
    LET candidates == <<"BOM ID", "Name", "Part Name", "iSKU", "Part Number", "SKU">>
        present == {i \in DOMAIN candidates : Field(part, candidates[i], <<>>) # <<>>}
    IN  IF present = {} THEN <<>>
        ELSE part[candidates[CHOOSE i \in present : \A j \in present : i <= j]]
RECURSIVE indexParts(_, _, _)
indexParts(results, i, m) ==
    IF i > Len(results) THEN m
    ELSE LET partName == partNameOf(results[i])
         IN  IF partName # <<>>
             THEN indexParts(results, i + 1,
                      MapSet(m, toLowerCase(partName), [part_id |-> results[i].id, part_name |-> partName]))
             ELSE indexParts(results, i + 1, m)

\* search_parts: one term against the index: exact match first, else first substring match
partialMatches(partNameToId, termLower) ==
    {i \in DOMAIN partNameToId :
        includes(partNameToId[i][1], termLower) \/ includes(termLower, partNameToId[i][1])}
\* a slip: the substring scan is tried before the exact lookup
searchTerm_substringFirst(partNameToId, term) ==
    LET termLower == toLowerCase(term)
        partial == partialMatches(partNameToId, termLower)
    IN  IF partial # {}
        THEN LET info == partNameToId[CHOOSE i \in partial : \A j \in partial : i <= j][2]
             IN  [part_id |-> info.part_id, part_name |-> info.part_name,
                  search_term |-> term, found |-> TRUE]
        ELSE [part_id |-> 0, part_name |-> <<>>, search_term |-> term, found |-> FALSE]
searchTerm(partNameToId, term) ==
    LET termLower == toLowerCase(term)
        partial == partialMatches(partNameToId, termLower)
    IN  IF MapHas(partNameToId, termLower)
        THEN [part_id |-> MapGet(partNameToId, termLower).part_id,
              part_name |-> MapGet(partNameToId, termLower).part_name,
              search_term |-> term, found |-> TRUE]
        ELSE IF partial # {}
        THEN LET info == partNameToId[CHOOSE i \in partial : \A j \in partial : i <= j][2]
             IN  [part_id |-> info.part_id, part_name |-> info.part_name,
                  search_term |-> term, found |-> TRUE]
        ELSE [part_id |-> 0, part_name |-> <<>>, search_term |-> term, found |-> FALSE]
searchResults(partNameToId, searchTerms) ==
    LET results == [i \in DOMAIN searchTerms |-> searchTerm(partNameToId, searchTerms[i])]
    IN  [results |-> results,
         found_count |-> Cardinality({i \in DOMAIN results : results[i].found}),
         not_found |-> SelectIdx(searchTerms, {i \in DOMAIN results : ~results[i].found}, 1)]

(***************************************************************************)
(* Startup and the tool-call boundary                                      *)
(***************************************************************************)
Pending == [pending |-> TRUE]
batchSize == 10
MAX_PAGES == 50

\* handleToolCall's try/catch: what a thrown error or a returned response becomes
handleToolCall(outcome) == IF outcome.threw THEN handleError(outcome.err) ELSE outcome.val

\* the completed calls a comparison specification keeps
Observe(c, resp) ==
    IF observed.on /\ c.pc = "done"
    THEN [on |-> TRUE, log |-> Append(observed.log, [toolName |-> c.toolName, args |-> c.args, response |-> resp])]
    ELSE observed

\* the tool call in flight moves on after a service call with result r
Step(r, nextCall, resp) ==
    /\ r.possible
    /\ outbound' = outbound \o r.sent
    /\ store' = r.st
    /\ call' = nextCall
    /\ response' = resp
    /\ observed' = Observe(nextCall, resp)
    /\ UNCHANGED <<env, phase, initialized, tableMap>>
NoCall == [out |-> Return(0), sent |-> <<>>, st |-> store, possible |-> TRUE]
Done == [call EXCEPT !.pc = "done"]

\* a startup that forgets the token check
InitializeServer_tokenUnchecked ==
    /\ phase = "boot"
    /\ LET r == initialize(env)
       IN  /\ initialized' = ~r.threw
           /\ tableMap' = r.map
           /\ phase' = IF r.threw THEN "exited" ELSE "serving"
    /\ UNCHANGED <<env, store, call, outbound, response, observed>>
\* main() / initializeServer(): allow-list, then the token check, then the transport
InitializeServer ==
    /\ phase = "boot"
    /\ LET r == initialize(env)
       IN  /\ initialized' = ~r.threw
           /\ tableMap' = r.map
           /\ phase' = IF r.threw \/ ~env.token THEN "exited" ELSE "serving"
    /\ UNCHANGED <<env, store, call, outbound, response, observed>>

Locals(command) ==
    CASE command = "batch_create" -> [i |-> 0, createdRecords |-> <<>>, inFlight |-> <<>>]
      [] command = "get_bom" -> [targetFgId |-> 0]
      [] command = "process_bpr" ->
            [moId |-> 0, bomLookup |-> <<>>, lotLookup |-> <<>>, labelLookup |-> <<>>, usageRecords |-> <<>>]
      [] command = "search_parts" -> [page |-> 1, partNameToId |-> <<>>]
      [] OTHER -> <<>>

\* handleToolCall(toolName, args) up to the first remote call of the handler
\* routeRequest picks by request.command
HandleToolCall(toolName, args) ==
    /\ phase = "serving"
    /\ call.pc = "idle"
    /\ LET built == buildRequest(toolName, args)
           validated == IF built.threw THEN built ELSE validateRequest(built.val)
           command == IF validated.threw THEN "" ELSE validated.val.command
           base == [toolName |-> toolName, args |-> args]
           nextCall ==
               IF validated.threw THEN base @@ [pc |-> "done"]
               ELSE IF command = "list_tables" THEN base @@ [pc |-> "done", req |-> validated.val]
               ELSE base @@ [pc |-> command, req |-> validated.val] @@ Locals(command)
           resp ==
               IF validated.threw THEN handleToolCall(validated)
               ELSE IF command = "list_tables" THEN successResponse([tables |-> listAllowedTables])
               ELSE Pending
       IN  /\ call' = nextCall
           /\ response' = resp
           /\ observed' = Observe(nextCall, resp)
    /\ outbound' = <<>>
    /\ UNCHANGED <<env, phase, initialized, tableMap, store>>

\* the CallTool request handler returns the response to the client
ReturnToClient ==
    /\ call.pc = "done"
    /\ call' = [pc |-> "idle"]
    /\ outbound' = <<>>
    /\ response' = Pending
    /\ UNCHANGED <<env, phase, initialized, tableMap, store, observed>>

(***************************************************************************)
(* CRUD handlers                                                           *)
(***************************************************************************)
\* an unclamped size, as if the cap had been forgotten
limitedSize_unclamped(req) == Field(req, "size", 100)
limitedSize(req) == Min(Field(req, "size", 100), MAX_RECORDS_PER_PAGE)

HandleRead ==
    /\ call.pc = "read"
    /\ \E reply \in Replies :
        LET req == call.req
            r == readRecords(req.table, Field(req, "filters", <<>>), Field(req, "page", 0),
                             limitedSize(req), reply)
            resp == IF r.out.threw THEN handleToolCall(r.out)
                    ELSE successResponseWith(simplifyResponse(r.out.val),
                             [count |-> r.out.val.count, page |-> Field(req, "page", 1),
                              size |-> limitedSize(req), next |-> r.out.val.next,
                              previous |-> r.out.val.previous])
        IN  Step(r, Done, resp)

HandleCreate ==
    /\ call.pc = "create"
    /\ \E reply \in Replies :
        LET r == createRecord(call.req.table, call.req.data, reply)
        IN  Step(r, Done, IF r.out.threw THEN handleToolCall(r.out) ELSE successResponse(r.out.val))

HandleUpdate ==
    /\ call.pc = "update"
    /\ \E reply \in Replies :
        LET r == updateRecord(call.req.table, call.req.record_id, call.req.data, reply)
        IN  Step(r, Done, IF r.out.threw THEN handleToolCall(r.out) ELSE successResponse(r.out.val))

HandleDelete ==
    /\ call.pc = "delete"
    /\ \E reply \in Replies :
        LET r == deleteRecord(call.req.table, call.req.record_id, reply)
        IN  Step(r, Done, IF r.out.threw THEN handleToolCall(r.out)
                          ELSE successResponse([deleted |-> TRUE, record_id |-> call.req.record_id]))

\* one chunk of batch_create: create j of the chunk, issued after the ones
\* before it; acc holds the store, the requests sent and the outcomes so far
NoneSent(st) == [st |-> st, sent |-> <<>>, outs |-> <<>>, possible |-> TRUE]
RECURSIVE createChunk(_, _, _, _, _)
createChunk(acc, table, batch, replies, j) ==
    IF j > Len(batch) THEN acc
    ELSE LET t == validateAndGetTableId(table)
             req == [method |-> "POST", body |-> batch[j], tableId |-> IF t.threw THEN 0 ELSE t.val]
             out == IF t.threw THEN t ELSE request(replies[j], BodyFor(acc.st, req))
         IN  createChunk(
                 [st |-> IF ~t.threw /\ ReplyOk(replies[j]) THEN StoreAfter(acc.st, req) ELSE acc.st,
                  sent |-> IF t.threw THEN acc.sent ELSE Append(acc.sent, req @@ [reply |-> replies[j]]),
                  outs |-> Append(acc.outs, out),
                  possible |-> acc.possible /\ (t.threw \/ replies[j] \in RepliesFor(acc.st, req))],
                 table, batch, replies, j + 1)

\* the reply vectors of one chunk: each create gets any reply, as long as no
\* more than MaxFaults of them get another reply than a 2xx with a JSON body
ChunkReplies(batch) ==
    {[j \in DOMAIN batch |-> IF j \in DOMAIN g THEN g[j] ELSE "ok_json"] :
        g \in UNION {[F -> Replies \ {"ok_json"}] :
                        F \in {F \in SUBSET DOMAIN batch : Cardinality(F) <= MaxFaults}}}

\* a loop that takes all the remaining records as one chunk
chunkOf_whole(records, i) == SubSeq(records, i + 1, Len(records))
\* records.slice(i, i + batchSize)
chunkOf(records, i) == SubSeq(records, i + 1, Min(i + batchSize, Len(records)))

\* a failed chunk that is skipped: the loop goes on with the next chunk
chunkFailure_skipped(c, j) ==
    [call |-> [call EXCEPT !.pc = "batch_create", !.i = @ + batchSize, !.inFlight = <<>>],
     resp |-> Pending]
\* Promise.all rejects with the error of a failed create: the handler ends
chunkFailure(c, j) ==
    [call |-> [call EXCEPT !.pc = "done", !.inFlight = <<>>], resp |-> handleToolCall(c.outs[j])]

\* the loop head: with records left, batch.map issues every create of the next
\* chunk before any is awaited; with none left, the response is built
HandleBatchCreate ==
    /\ call.pc = "batch_create"
    /\ LET batch == chunkOf(call.req.records, call.i)
       IN  IF call.i < Len(call.req.records)
           THEN Step(NoCall, [call EXCEPT !.pc = "batch_await", !.inFlight = batch], Pending)
           ELSE Step(NoCall, Done, successResponse([created |-> Len(call.createdRecords),
                                                    records |-> call.createdRecords]))

\* await Promise.all(promises): the creates in flight settle
AwaitBatch ==
    /\ call.pc = "batch_await"
    /\ \E replies \in ChunkReplies(call.inFlight) :
        LET c == createChunk(NoneSent(store), call.req.table, call.inFlight, replies, 1)
            r == [out |-> Return(0), sent |-> c.sent, st |-> c.st, possible |-> c.possible]
            failed == {j \in DOMAIN c.outs : c.outs[j].threw}
            created == call.createdRecords \o [j \in DOMAIN c.outs |-> [id |-> IdOf(c.outs[j].val)]]
        IN  IF failed # {}
            THEN \E j \in failed : Step(r, chunkFailure(c, j).call, chunkFailure(c, j).resp)
            ELSE Step(r, [call EXCEPT !.pc = "batch_create", !.i = @ + batchSize,
                                      !.createdRecords = created, !.inFlight = <<>>], Pending)

(***************************************************************************)
(* get_bom                                                                 *)
(***************************************************************************)
\* a lookup made whenever an iSKU is given, also beside an fg_id
NeedsFgLookup_anyISKU(req) == Field(req, "isku", "") # ""
\* !targetFgId && isku
NeedsFgLookup(req) == ~Has(req, "fg_id") /\ Field(req, "isku", "") # ""
\* a lookup that forgets the filter, and so takes the first Finished Good of the table
iskuFilter_none(isku) == <<>>
\* { 'iSKU': isku }: the exact-match filter of the Finished Good lookup
iskuFilter(isku) == ("iSKU" :> isku)

\* the iSKU given: resolve it to a Finished Good by an exact-match read
HandleGetBOMLookup ==
    /\ call.pc = "get_bom"
    /\ NeedsFgLookup(call.req)
    /\ \E reply \in Replies :
        LET r == readRecords("finished_goods", iskuFilter(call.req.isku), 1, 1, reply)
        IN  IF r.out.threw THEN Step(r, Done, handleToolCall(r.out))
            ELSE IF r.out.val.results = <<>>
            THEN Step(r, Done, errorResponse("FG_NOT_FOUND", "Finished Good not found"))
            ELSE Step(r, [call EXCEPT !.pc = "get_bom_mappings", !.targetFgId = r.out.val.results[1].id],
                      Pending)

\* fetch the mappings and keep those of the target Finished Good
HandleGetBOMMappings ==
    /\ \/ call.pc = "get_bom" /\ ~NeedsFgLookup(call.req)
       \/ call.pc = "get_bom_mappings"
    /\ LET targetFgId == IF call.pc = "get_bom" THEN Field(call.req, "fg_id", 0) ELSE call.targetFgId
       IN  IF targetFgId = 0
           THEN Step(NoCall, Done, errorResponse("INVALID_REQUEST", "Either fg_id or isku must be provided"))
           ELSE \E reply \in Replies :
                LET r == readRecords("fg_parts_mapping", <<>>, 1, 200, reply)
                    bomItems == buildBomItems(r.out.val.results, targetFgId, 1)
                    linked == {i \in DOMAIN r.out.val.results :
                                  LET fg == Field(r.out.val.results[i], "Finished Good", <<>>)
                                  IN  Len(fg) > 0 /\ fg[1].id = targetFgId /\ fg[1].value # ""}
                    targetIsku ==
                        IF Field(call.req, "isku", "") # "" THEN call.req.isku
                        ELSE IF linked = {} THEN ""
                        ELSE r.out.val.results[CHOOSE i \in linked : \A j \in linked : i <= j]["Finished Good"][1].value
                IN  IF r.out.threw THEN Step(r, Done, handleToolCall(r.out))
                    ELSE Step(r, Done, successResponse([fg_id |-> targetFgId, fg_isku |-> targetIsku,
                                                        parts |-> bomItems, total_parts |-> Len(bomItems)]))

(***************************************************************************)
(* process_bpr                                                             *)
(***************************************************************************)
bomIdsOf(partsUsage) == [i \in DOMAIN partsUsage |-> partsUsage[i].bom_id]

\* where the workflow goes once the BOM mappings (and then the lots) are resolved
\* the lots fetched whatever the items carry
AfterBoms_alwaysLots(partsUsage) == "bpr_lots"
AfterBoms(partsUsage) ==
    IF lotNumbersToLookup(partsUsage) # <<>> THEN "bpr_lots"
    ELSE IF labelCodesToLookup(partsUsage) # <<>> THEN "bpr_labels"
    ELSE IF partsUsage # <<>> THEN "bpr_create" ELSE "bpr_update"
AfterLots(partsUsage) ==
    IF labelCodesToLookup(partsUsage) # <<>> THEN "bpr_labels"
    ELSE IF partsUsage # <<>> THEN "bpr_create" ELSE "bpr_update"

\* a slip: a Manufacturing Order that is already closed is taken as not found
BprFindMO_closedRejected ==
    /\ call.pc = "process_bpr"
    /\ \E reply \in Replies :
        LET r == readRecords("manufacturing_orders", ("MO Number" :> call.req.mo_number), 1, 1, reply)
        IN  IF r.out.threw THEN Step(r, Done, handleToolCall(r.out))
            ELSE IF r.out.val.results = <<>> \/ r.out.val.results[1]["MO Status"] = MO_STATUS_CLOSED
            THEN Step(r, Done, errorResponse("MO_NOT_FOUND", "Manufacturing Order not found"))
            ELSE Step(r, [call EXCEPT !.pc = "bpr_boms", !.moId = r.out.val.results[1].id], Pending)
\* step 1: find the Manufacturing Order
BprFindMO ==
    /\ call.pc = "process_bpr"
    /\ \E reply \in Replies :
        LET r == readRecords("manufacturing_orders", ("MO Number" :> call.req.mo_number), 1, 1, reply)
        IN  IF r.out.threw THEN Step(r, Done, handleToolCall(r.out))
            ELSE IF r.out.val.results = <<>>
            THEN Step(r, Done, errorResponse("MO_NOT_FOUND", "Manufacturing Order not found"))
            ELSE Step(r, [call EXCEPT !.pc = "bpr_boms", !.moId = r.out.val.results[1].id], Pending)

\* step 2: resolve every bom_id, all or nothing
BprLookupBoms ==
    /\ call.pc = "bpr_boms"
    /\ \E reply \in Replies :
        LET r == readRecords("fg_parts_mapping", <<>>, 1, 200, reply)
            bomIds == bomIdsOf(call.req.parts_usage)
            bomLookup == buildBomLookup(r.out.val.results, bomIds, 1, <<>>)
            missing == missingBomIds(bomIds, bomLookup)
        IN  IF r.out.threw THEN Step(r, Done, handleToolCall(r.out))
            ELSE IF missing # <<>>
            THEN Step(r, Done, errorResponse("BOM_NOT_FOUND", [text |-> "BOM mapping IDs not found", ids |-> missing]))
            ELSE Step(r, [call EXCEPT !.pc = AfterBoms(call.req.parts_usage), !.bomLookup = bomLookup], Pending)

\* step 2.5: lot numbers to lot identifiers
BprLookupLots ==
    /\ call.pc = "bpr_lots"
    /\ \E reply \in Replies :
        LET r == readRecords("raw_material_lots", <<>>, 1, 200, reply)
            lotLookup == buildLotLookup(r.out.val.results, lotNumbersToLookup(call.req.parts_usage), 1, <<>>)
        IN  IF r.out.threw THEN Step(r, Done, handleToolCall(r.out))
            ELSE Step(r, [call EXCEPT !.pc = AfterLots(call.req.parts_usage), !.lotLookup = lotLookup], Pending)

\* step 2.5: label codes to label identifiers
BprLookupLabels ==
    /\ call.pc = "bpr_labels"
    /\ \E reply \in Replies :
        LET r == readRecords("label_inventory", <<>>, 1, 200, reply)
            labelLookup == buildLabelLookup(r.out.val.results, labelCodesToLookup(call.req.parts_usage), 1, <<>>)
        IN  IF r.out.threw THEN Step(r, Done, handleToolCall(r.out))
            ELSE Step(r, [call EXCEPT !.pc = IF call.req.parts_usage # <<>> THEN "bpr_create" ELSE "bpr_update",
                                      !.labelLookup = labelLookup], Pending)

\* a slip: a failed creation is logged and the loop goes on
createFailure_swallowed(c, out) ==
    [c EXCEPT !.usageRecords = Append(@, [id |-> undefined]),
              !.pc = IF Len(c.usageRecords) + 1 < Len(c.req.parts_usage) THEN "bpr_create" ELSE "bpr_update"]
createFailure(c, out) == [c EXCEPT !.pc = "done"]

\* step 3: create the next usage record, in input order
BprCreateUsage ==
    /\ call.pc = "bpr_create"
    /\ \E reply \in Replies :
        LET k == Len(call.usageRecords) + 1
            part == call.req.parts_usage[k]
            data == usageData(part, call.moId, call.req.mo_number, Field(call.req, "entered_by", ""),
                              call.bomLookup, call.lotLookup, call.labelLookup)
            r == createRecord("mo_parts_usage", data, reply)
            failedCall == createFailure(call, r.out)
        IN  \* bomLookup.get(part.bom_id)! of an unresolved bom_id is undefined: reading it throws
            IF ~MapHas(call.bomLookup, part.bom_id)
            THEN Step(NoCall, Done, handleToolCall(Throw(TypeError)))
            ELSE IF r.out.threw
            THEN Step(r, failedCall, IF failedCall.pc = "done" THEN handleToolCall(r.out) ELSE Pending)
            ELSE Step(r, [call EXCEPT !.usageRecords = Append(@, [id |-> IdOf(r.out.val)]),
                                      !.pc = IF k < Len(call.req.parts_usage) THEN "bpr_create" ELSE "bpr_update"],
                      Pending)

\* step 4: close the Manufacturing Order in one update
BprUpdateMO ==
    /\ call.pc = "bpr_update"
    /\ \E reply \in Replies :
        LET r == updateRecord("manufacturing_orders", call.moId,
                              updateData(call.req.completion_date, call.req.gross_produced), reply)
            ids == [i \in DOMAIN call.usageRecords |-> call.usageRecords[i].id]
        IN  IF r.out.threw THEN Step(r, Done, handleToolCall(r.out))
            ELSE Step(r, Done, successResponse([success |-> TRUE, mo_id |-> call.moId,
                                                mo_number |-> call.req.mo_number,
                                                parts_usage_created |-> Len(call.usageRecords),
                                                parts_usage_ids |-> ids, mo_updated |-> TRUE]))

(***************************************************************************)
(* process_bpr of the HTTP/Express variant (server-railway.ts; the edge-   *)
(* worker variant has the same text): what it returns and writes when      *)
(* every remote call succeeds                                              *)
(***************************************************************************)
railwayLabelMatches(code, labelCode) ==
    \/ toLowerCase(code) = toLowerCase(labelCode)
    \/ includes(toLowerCase(labelCode), toLowerCase(code))
RECURSIVE railwayLabelLookup(_, _, _, _)
railwayLabelLookup(results, labelCodes, i, m) ==
    IF i > Len(results) THEN m
    ELSE LET label == results[i]
             partBomId == Field(label, "Part BOM ID", <<>>)
             labelCode == IF Len(partBomId) > 0 THEN partBomId[1].value ELSE <<>>
             hits == {j \in DOMAIN labelCodes : railwayLabelMatches(labelCodes[j], labelCode)}
         IN  IF labelCode # <<>> /\ hits # {}
             THEN LET matchedCode == labelCodes[CHOOSE j \in hits : \A h \in hits : j <= h]
                  IN  railwayLabelLookup(results, labelCodes, i + 1, MapSet(m, matchedCode, label.id))
             ELSE railwayLabelLookup(results, labelCodes, i + 1, m)
\* listRecords of the variant sends filter__<field>__contains; MO numbers are
\* compared as whole values here, and the stores hold no MO number that
\* contains another, so the rows served are those the filter selects
railwayListRecords(rows, filters, page, size) == ListPage(rows, buildListUrl(0, filters, page, size)).results
railwayProcessBPR(st, args) ==
    LET partsUsage == args.parts_usage
        mos == railwayListRecords(st.manufacturing_orders, ("MO Number" :> args.mo_number), 1, 1)
        bomIds == bomIdsOf(partsUsage)
        bomLookup == buildBomLookup(railwayListRecords(st.fg_parts_mapping, <<>>, 1, 200), bomIds, 1, <<>>)
        lotLookup ==
            IF lotNumbersToLookup(partsUsage) # <<>>
            THEN buildLotLookup(railwayListRecords(st.raw_material_lots, <<>>, 1, 200),
                                lotNumbersToLookup(partsUsage), 1, <<>>)
            ELSE <<>>
        labelLookup ==
            IF labelCodesToLookup(partsUsage) # <<>>
            THEN railwayLabelLookup(railwayListRecords(st.label_inventory, <<>>, 1, 200),
                                    labelCodesToLookup(partsUsage), 1, <<>>)
            ELSE <<>>
        \* if (!bomInfo) continue
        resolved == SelectIdx(partsUsage, {i \in DOMAIN partsUsage : MapHas(bomLookup, partsUsage[i].bom_id)}, 1)
    IN  IF mos = <<>> THEN [outcome |-> "MO_NOT_FOUND", creates |-> <<>>, updates |-> <<>>]
        ELSE [outcome |-> "success",
              creates |-> [i \in DOMAIN resolved |->
                              usageData(resolved[i], mos[1].id, args.mo_number, Field(args, "entered_by", ""),
                                        bomLookup, lotLookup, labelLookup)],
              updates |-> <<[recordId |-> mos[1].id,
                             body |-> updateData(args.completion_date, args.gross_produced)]>>]

(***************************************************************************)
(* search_parts                                                            *)
(***************************************************************************)
\* a page read that also leaves a row behind in the table it reads
readPartsPage_recording(page, reply) ==
    LET r == readRecords("parts", <<>>, page, 200, reply)
        post == [method |-> "POST", tableId |-> RemoteTableIds.parts,
                 body |-> ("BOM ID" :> <<"a">>), reply |-> "ok_json"]
    IN  IF r.sent = <<>> \/ ~ReplyOk(reply) THEN r
        ELSE [r EXCEPT !.sent = @ \o <<post>>, !.st = StoreAfter(r.st, post)]
\* readRecords('parts', {}, page, 200): one page of the parts table
readPartsPage(page, reply) == readRecords("parts", <<>>, page, 200, reply)

\* a slip: the ceiling is tested one page late
pageLimitHit_late(page) == page > MAX_PAGES + 1
\* if (page > 50) break
pageLimitHit(page) == page > MAX_PAGES

\* one turn of the paging loop; after the last page the terms are searched
HandleSearchParts ==
    /\ call.pc = "search_parts"
    /\ \E reply \in Replies :
        LET r == readPartsPage(call.page, reply)
            partNameToId == indexParts(r.out.val.results, 1, call.partNameToId)
            hasMore == r.out.val.next /\ Len(r.out.val.results) > 0
            page == call.page + 1
        IN  IF r.out.threw THEN Step(r, Done, handleToolCall(r.out))
            ELSE IF hasMore /\ ~pageLimitHit(page)
            THEN Step(r, [call EXCEPT !.page = page, !.partNameToId = partNameToId], Pending)
            ELSE Step(r, [call EXCEPT !.pc = "done", !.page = page, !.partNameToId = partNameToId],
                      successResponse(searchResults(partNameToId, call.req.search_terms)))

(***************************************************************************)
(* The server with its store: environments, store contents and tool calls  *)
(***************************************************************************)
IdStr(n) == <<Digits[(n \div 10) + 1], Digits[(n % 10) + 1]>>
EnvTables(missing) ==
    [n \in Range(ALLOWED_TABLE_NAMES) |-> IF n \in missing THEN <<>> ELSE IdStr(RemoteTableIds[n])]
MainEnvs ==
    {[tables |-> EnvTables({"cycle_counts"}), token |-> TRUE],
     [tables |-> EnvTables({"cycle_counts", "mo_parts_usage"}), token |-> TRUE],
     [tables |-> EnvTables(Range(ALLOWED_TABLE_NAMES)), token |-> TRUE],
     [tables |-> [EnvTables({"cycle_counts"}) EXCEPT !["parts"] = <<"x", "1">>], token |-> TRUE],
     [tables |-> [EnvTables({"cycle_counts"}) EXCEPT !["parts"] = <<"1", "9", "x">>], token |-> TRUE],
     [tables |-> [EnvTables({"cycle_counts"}) EXCEPT !["parts"] = <<"0">>], token |-> TRUE],
     [tables |-> EnvTables({"cycle_counts"}), token |-> FALSE]}

Link(id, value) == [id |-> id, value |-> value]
MainStore ==
    [manufacturing_orders |-> <<[id |-> 101] @@ ("MO Number" :> "MO-1") @@ ("MO Status" :> 0)>>,
     mo_parts_usage |-> <<>>,
     raw_material_lots |-> <<[id |-> 31] @@ ("Internal Lot Number" :> "L1"),
                             [id |-> 32] @@ ("Internal Lot Number" :> "l1")>>,
     finished_goods |-> <<[id |-> 21, iSKU |-> "SKU-1"], [id |-> 22, iSKU |-> "SKU-2"]>>,
     fg_parts_mapping |->
        <<[id |-> 1, Part |-> <<Link(11, <<"a", "b">>)>>, Quantity |-> <<"2">>]
              @@ ("Finished Good" :> <<Link(21, "SKU-1")>>),
          [id |-> 2, Part |-> <<Link(12, <<"A">>), Link(14, <<"b", "a">>)>>, Quantity |-> <<"1", "0">>]
              @@ ("Finished Good" :> <<Link(21, "SKU-1")>>),
          [id |-> 3, Part |-> <<>>, Quantity |-> <<>>]
              @@ ("Finished Good" :> <<Link(22, "SKU-2")>>)>>,
     label_inventory |-> <<[id |-> 41] @@ ("Part BOM ID" :> <<Link(0, <<"a", "b">>)>>),
                           [id |-> 42] @@ ("Part BOM ID" :> <<Link(0, <<"B">>)>>)>>,
     parts |-> <<[id |-> 11] @@ ("BOM ID" :> <<"a", "b">>),
                 [id |-> 12] @@ ("BOM ID" :> <<"A">>) @@ ("Labels" :> <<Link(41, "x")>>),
                 [id |-> 13, Name |-> <<"b">>, Description |-> [len |-> 60000]],
                 [id |-> 14] @@ ("BOM ID" :> <<"b", "a">>)>>]

RowData == Obj([Name |-> "x"])
ReadTables == {"parts", "cycle_counts", "secret_data"}
WriteTables == {"inventory_transactions", "cycle_counts", "secret_data"}
SizeArgs == {<<>>, [size |-> Num(10)], [size |-> Num(26)], [size |-> Num(200)], [size |-> Num(201)]}
PageArgs == {<<>>, [page |-> Num(2)]}
MainItems ==
    {Obj([bom_id |-> Num(1), quantity |-> Num(5), lot_number |-> Str("L1"),
          label_code |-> Str(<<"a">>), label_id |-> Num(42)]),
     Obj([bom_id |-> Num(2), quantity |-> Num(1), label_code |-> Str(<<"a">>),
          lot_number |-> Str("L1"), lot_id |-> Num(32),
          part_id |-> Num(99), fg_id |-> Num(98), mo_id |-> Num(97)]),
     Obj([bom_id |-> Num(4), quantity |-> Num(2)])}
MainTerms == {Str(<<"a">>), Str(<<"A", "b">>)}

\* the tool calls a client makes; a further BPR is started only while the
\* store has room for its usage records
MainToolCalls(st) ==
    {<<"list_tables", <<>>>>, <<"drop_table", <<>>>>, <<"toString", <<>>>>,
     <<"read", [command |-> Str("list_tables")]>>,
     <<"toString", [command |-> Str("read"), table |-> Str("parts")]>>,
     <<"drop_table", [command |-> Str("read"), table |-> Str("parts")]>>,
     <<"search_parts", [command |-> Str("delete"), table |-> Str("inventory_transactions"),
                        record_id |-> Num(141)]>>}
    \cup {<<"read", [table |-> Str(t)] @@ sz @@ pg>> : t \in ReadTables, sz \in SizeArgs, pg \in PageArgs}
    \cup {<<"create", [table |-> Str(t), data |-> RowData]>> : t \in WriteTables}
    \cup {<<"create", [table |-> Str("inventory_transactions")]>>}
    \cup {<<"update", [table |-> Str(t), record_id |-> Num(n), data |-> RowData]>> :
              t \in WriteTables, n \in {0, 141}}
    \cup {<<"delete", [table |-> Str(t), record_id |-> Num(141)]>> : t \in WriteTables}
    \cup {<<"batch_create", [table |-> Str(t), records |-> Arr(recs)]>> :
              t \in WriteTables, recs \in SeqsUpTo({RowData}, MaxBatch)}
    \cup {<<"get_bom", a>> : a \in {[fg_id |-> Num(21)], [isku |-> Str("SKU-1")],
                                    [isku |-> Str("SKU-9")], [isku |-> Str("")], <<>>}}
    \cup {<<"process_bpr", [mo_number |-> Str(m), completion_date |-> Str("2026-01-01"),
                            gross_produced |-> Str("100"), parts_usage |-> Arr(items)]>> :
              m \in {"MO-1", "MO-9"},
              items \in SeqsUpTo(MainItems, Min(MaxItems, MaxUsageRows - Len(st.mo_parts_usage)))}
    \cup {<<"search_parts", [search_terms |-> Arr(terms)]>> : terms \in SeqsUpTo(MainTerms, MaxTerms)}

Init ==
    /\ env \in MainEnvs
    /\ phase = "boot"
    /\ initialized = FALSE
    /\ tableMap = NoTables
    /\ store = MainStore
    /\ call = [pc |-> "idle"]
    /\ outbound = <<>>
    /\ response = Pending
    /\ observed = [on |-> FALSE]

ToolCall == \E tc \in MainToolCalls(store) : HandleToolCall(tc[1], tc[2])

Next ==
    \/ InitializeServer
    \/ ToolCall
    \/ ReturnToClient
    \/ HandleRead
    \/ HandleCreate
    \/ HandleUpdate
    \/ HandleDelete
    \/ HandleBatchCreate
    \/ AwaitBatch
    \/ HandleGetBOMLookup
    \/ HandleGetBOMMappings
    \/ BprFindMO
    \/ BprLookupBoms
    \/ BprLookupLots
    \/ BprLookupLabels
    \/ BprCreateUsage
    \/ BprUpdateMO
    \/ HandleSearchParts

Spec == Init /\ [][Next]_vars

(***************************************************************************)
(* Two get_bom calls against one store.  The store holds two Finished      *)
(* Goods whose iSKUs may be distinct, equal or empty; the responses of the *)
(* completed calls are kept in observed.log so that two calls can be       *)
(* compared.                                                               *)
(***************************************************************************)
BomISKUs == {"SKU-1", "SKU-2", ""}
BomMappings ==
    {MainStore.fg_parts_mapping,
     <<[id |-> 1, Part |-> <<Link(11, <<"a", "b">>)>>, Quantity |-> <<"2">>]
           @@ ("Finished Good" :> <<Link(22, "SKU-2")>>),
       [id |-> 2, Part |-> <<Link(12, <<"A">>)>>, Quantity |-> <<>>]
           @@ ("Finished Good" :> <<Link(21, "SKU-1")>>),
       [id |-> 3, Part |-> <<Link(11, <<"a", "b">>)>>, Quantity |-> <<"1">>]
           @@ ("Finished Good" :> <<Link(21, "SKU-1")>>)>>,
     <<[id |-> 5, Part |-> <<>>, Quantity |-> <<"1">>]
           @@ ("Finished Good" :> <<Link(21, "SKU-1")>>),
       [id |-> 6, Part |-> <<Link(12, <<"A">>), Link(11, <<"a", "b">>)>>, Quantity |-> <<"3">>]
           @@ ("Finished Good" :> <<Link(21, "SKU-1"), Link(22, "SKU-2")>>),
       [id |-> 7, Part |-> <<Link(11, <<"a", "b">>)>>, Quantity |-> <<"2">>]
           @@ ("Finished Good" :> <<Link(21, "SKU-1")>>),
       [id |-> 8, Part |-> <<Link(12, <<"A">>)>>, Quantity |-> <<"1">>]
           @@ ("Finished Good" :> <<Link(21, "SKU-1")>>)>>}
BomStores ==
    {[MainStore EXCEPT !.finished_goods = <<[id |-> 21, iSKU |-> a], [id |-> 22, iSKU |-> b]>>,
                       !.fg_parts_mapping = m] : a \in BomISKUs, b \in BomISKUs, m \in BomMappings}
BomEnvs ==
    {[tables |-> EnvTables({"cycle_counts"}), token |-> TRUE],
     [tables |-> EnvTables({"cycle_counts", "finished_goods"}), token |-> TRUE]}
BomArgs ==
    {[fg_id |-> Num(21)], [fg_id |-> Num(22)], [isku |-> Str("SKU-1")], [isku |-> Str("SKU-2")],
     [isku |-> Str("")], [fg_id |-> Num(22), isku |-> Str("SKU-1")], <<>>}

InitBOM ==
    /\ env \in BomEnvs
    /\ phase = "boot"
    /\ initialized = FALSE
    /\ tableMap = NoTables
    /\ store \in BomStores
    /\ call = [pc |-> "idle"]
    /\ outbound = <<>>
    /\ response = Pending
    /\ observed = [on |-> TRUE, log |-> <<>>]

\* a comparison is between two calls: a third one is not started
BomToolCall ==
    /\ Len(observed.log) < 2
    /\ \E a \in BomArgs : HandleToolCall("get_bom", a)

NextBOM ==
    \/ InitializeServer
    \/ BomToolCall
    \/ ReturnToClient
    \/ HandleGetBOMLookup
    \/ HandleGetBOMMappings

SpecBOM == InitBOM /\ [][NextBOM]_vars

(***************************************************************************)
(* Two search_parts calls with the same terms against one parts table.     *)
(* The table holds names that differ in case only, names that contain one  *)
(* another, and is one page or two pages long.                             *)
(***************************************************************************)
SearchNames == {<<"a">>, <<"A">>, <<"a", "b">>, <<"b">>}
PartsNamed(names) == [i \in DOMAIN names |-> [id |-> 10 + i] @@ ("BOM ID" :> names[i])]
SearchStores ==
    {[MainStore EXCEPT !.parts = PartsNamed(names \o more)] :
        names \in [1..2 -> SearchNames], more \in {<<>>, << <<"b", "a">>, <<"A", "B">> >>}}
SearchTerms == {Str(<<"a">>), Str(<<"A", "b">>)}

InitSearch ==
    /\ env = [tables |-> EnvTables({"cycle_counts"}), token |-> TRUE]
    /\ phase = "boot"
    /\ initialized = FALSE
    /\ tableMap = NoTables
    /\ store \in SearchStores
    /\ call = [pc |-> "idle"]
    /\ outbound = <<>>
    /\ response = Pending
    /\ observed = [on |-> TRUE, log |-> <<>>]

\* the first call takes any terms, the second call repeats the first
SearchToolCall ==
    /\ Len(observed.log) < 2
    /\ \E terms \in SeqsUpTo(SearchTerms, MaxTerms) :
        /\ observed.log # <<>> => observed.log[1].args = [search_terms |-> Arr(terms)]
        /\ HandleToolCall("search_parts", [search_terms |-> Arr(terms)])

NextSearch ==
    \/ InitializeServer
    \/ SearchToolCall
    \/ ReturnToClient
    \/ HandleSearchParts

SpecSearch == InitSearch /\ [][NextSearch]_vars

(***************************************************************************)
(* search_parts against listings of any length: the paging loop            *)
(***************************************************************************)
PagingStores ==
    {MainStore,
     MainStore @@ [endless |-> {"parts"}],
     [MainStore EXCEPT !.parts = <<>>] @@ [endless |-> {"parts"}],
     [MainStore EXCEPT !.parts = <<>>]}

InitPaging ==
    /\ env = [tables |-> EnvTables({"cycle_counts"}), token |-> TRUE]
    /\ phase = "boot"
    /\ initialized = FALSE
    /\ tableMap = NoTables
    /\ store \in PagingStores
    /\ call = [pc |-> "idle"]
    /\ outbound = <<>>
    /\ response = Pending
    /\ observed = [on |-> FALSE]

PagingToolCall == HandleToolCall("search_parts", [search_terms |-> Arr(<<Str(<<"a">>)>>)])

NextPaging ==
    \/ InitializeServer
    \/ PagingToolCall
    \/ ReturnToClient
    \/ HandleSearchParts

SpecPaging == InitPaging /\ [][NextPaging]_vars
\* a finished call is returned, and an awaited request settles (a reply or a
\* failure) so that the loop goes on: weak fairness of HandleSearchParts,
\* whose enabling condition is call.pc = "search_parts" (a request can
\* always fail), written with that condition in place of ENABLED
SpecPagingLive ==
    /\ SpecPaging
    /\ WF_vars(ReturnToClient)
    /\ ([]<>(call.pc # "search_parts") \/ []<><<HandleSearchParts>>_vars)

(***************************************************************************)
(* batch_create with more records than one chunk holds, into a table whose *)
(* rows the store keeps.                                                   *)
(***************************************************************************)
BatchLengths == {9, 10, 11, 12}
BatchRecord(n) == Obj([Name |-> "x", Line |-> n])
BatchStore == MainStore @@ [inventory_transactions |-> <<>>]

InitBatch ==
    /\ env = [tables |-> EnvTables({"cycle_counts"}), token |-> TRUE]
    /\ phase = "boot"
    /\ initialized = FALSE
    /\ tableMap = NoTables
    /\ store = BatchStore
    /\ call = [pc |-> "idle"]
    /\ outbound = <<>>
    /\ response = Pending
    /\ observed = [on |-> FALSE]

\* one batch at a time into the empty table
BatchToolCall ==
    /\ store.inventory_transactions = <<>>
    /\ \E n \in BatchLengths :
        HandleToolCall("batch_create", [table |-> Str("inventory_transactions"),
                                        records |-> Arr([k \in 1..n |-> BatchRecord(k)])])

NextBatch ==
    \/ InitializeServer
    \/ BatchToolCall
    \/ ReturnToClient
    \/ HandleBatchCreate
    \/ AwaitBatch

SpecBatch == InitBatch /\ [][NextBatch]_vars

(***************************************************************************)
(* The allow-list over the life of the process: initialize() called again, *)
(* the process environment changing, tool calls going on                   *)
(***************************************************************************)
AllowListEnvs ==
    MainEnvs \cup {[tables |-> [EnvTables({"cycle_counts"}) EXCEPT !["parts"] = <<"2", "9">>], token |-> TRUE],
                   [tables |-> EnvTables({"parts"}), token |-> TRUE]}

InitAllowList ==
    /\ env \in MainEnvs
    /\ phase = "boot"
    /\ initialized = FALSE
    /\ tableMap = NoTables
    /\ store = MainStore
    /\ call = [pc |-> "idle"]
    /\ outbound = <<>>
    /\ response = Pending
    /\ observed = [on |-> FALSE, initializeCalls |-> 0]

\* process.env is assigned while the server runs
ChangeEnvironment ==
    /\ phase = "serving"
    /\ env' \in AllowListEnvs \ {env}
    /\ UNCHANGED <<phase, initialized, tableMap, store, call, outbound, response, observed>>

\* allowListManager.initialize() called once more; two such calls are followed
Reinitialize ==
    /\ phase = "serving"
    /\ observed.initializeCalls < 2
    /\ LET r == initializeAgain(env)
       IN  /\ initialized' = (initialized \/ ~r.threw)
           /\ tableMap' = r.map
    /\ observed' = [observed EXCEPT !.initializeCalls = @ + 1]
    /\ UNCHANGED <<env, phase, store, call, outbound, response>>

AllowListToolCall ==
    \E tc \in {<<"list_tables", <<>>>>} \cup {<<"read", [table |-> Str(t)]>> : t \in ReadTables} :
        HandleToolCall(tc[1], tc[2])

NextAllowList ==
    \/ InitializeServer
    \/ ChangeEnvironment
    \/ Reinitialize
    \/ AllowListToolCall
    \/ ReturnToClient
    \/ HandleRead

SpecAllowList == InitAllowList /\ [][NextAllowList]_vars

(***************************************************************************)
(* The response shaper applied to list responses of any length            *)
(***************************************************************************)
\* the fields a record has beside its id: none, a long text, a longer text,
\* known-large links (few and many)
ShaperRowKinds ==
    {<<>>,
     [Description |-> [len |-> 2500]],
     [Description |-> [len |-> 6000]],
     ("Labels" :> <<Link(41, "x"), Link(42, "y")>>)
        @@ ("MO Parts Usage" :> <<Link(1, "a"), Link(2, "b"), Link(3, "c"), Link(4, "d")>>)}
ShaperInputs ==
    {[count |-> n + more, next |-> more > 0, previous |-> FALSE,
      results |-> [i \in 1..n |-> [id |-> i] @@ kind]] :
        n \in 0..MaxRecords, more \in {0, 100}, kind \in ShaperRowKinds}

InitShaper ==
    /\ env = [tables |-> EnvTables({}), token |-> TRUE]
    /\ phase = "boot"
    /\ initialized = FALSE
    /\ tableMap = NoTables
    /\ store = MainStore
    /\ call \in {[pc |-> "shape", input |-> in] : in \in ShaperInputs}
    /\ outbound = <<>>
    /\ response = Pending
    /\ observed = [on |-> FALSE]

\* simplifyResponse(response) of handleRead
ApplyShaper ==
    /\ call.pc = "shape"
    /\ response' = simplifyResponse(call.input)
    /\ call' = [call EXCEPT !.pc = "shaped"]
    /\ UNCHANGED <<env, phase, initialized, tableMap, store, outbound, observed>>

NextShaper == ApplyShaper

SpecShaper == InitShaper /\ [][NextShaper]_vars

(***************************************************************************)
(* process_bpr against varied mappings and labels: what each item resolves *)
(* to                                                                      *)
(***************************************************************************)
ResolveLabels ==
    {MainStore.label_inventory,
     <<[id |-> 41] @@ ("Part BOM ID" :> <<Link(0, <<"B">>)>>),
       [id |-> 42] @@ ("Part BOM ID" :> <<Link(0, <<"z">>), Link(0, <<"a">>)>>),
       [id |-> 43] @@ ("Part BOM ID" :> <<>>)>>,
     <<[id |-> 41] @@ ("Part BOM ID" :> <<Link(0, <<"a", "b", "c">>)>>)>>}
ResolveMappings ==
    {MainStore.fg_parts_mapping,
     <<[id |-> 2, Part |-> <<Link(12, <<"A">>)>>, Quantity |-> <<"1">>]
           @@ ("Finished Good" :> <<Link(21, "SKU-1")>>),
       [id |-> 3, Part |-> <<Link(11, <<"a", "b">>)>>, Quantity |-> <<"1">>]
           @@ ("Finished Good" :> <<>>),
       [id |-> 1, Part |-> <<Link(11, <<"a", "b">>)>>, Quantity |-> <<"2">>]
           @@ ("Finished Good" :> <<Link(22, "SKU-2")>>),
       [id |-> 4, Part |-> <<Link(12, <<"A">>)>>, Quantity |-> <<"1">>]
           @@ ("Finished Good" :> <<Link(21, "SKU-1")>>)>>}
ResolveStores ==
    {[MainStore EXCEPT !.label_inventory = l, !.fg_parts_mapping = m] :
        l \in ResolveLabels, m \in ResolveMappings}
ResolveItems ==
    {Obj([bom_id |-> Num(1), quantity |-> Num(5), lot_number |-> Str("L1"), label_code |-> Str(<<"b">>)]),
     Obj([bom_id |-> Num(2), quantity |-> Num(1), lot_number |-> Str("L9"), label_code |-> Str(<<"z", "z">>)]),
     Obj([bom_id |-> Num(1), quantity |-> Num(2), lot_number |-> Str("L1"), lot_id |-> Num(32),
          label_code |-> Str(<<"a">>), label_id |-> Num(42)]),
     Obj([bom_id |-> Num(2), quantity |-> Num(3), label_code |-> Str(<<"A", "B">>)]),
     Obj([bom_id |-> Num(3), quantity |-> Num(4)]),
     Obj([bom_id |-> Num(4), quantity |-> Num(6)])}

InitResolve ==
    /\ env = [tables |-> EnvTables({"cycle_counts"}), token |-> TRUE]
    /\ phase = "boot"
    /\ initialized = FALSE
    /\ tableMap = NoTables
    /\ store \in ResolveStores
    /\ call = [pc |-> "idle"]
    /\ outbound = <<>>
    /\ response = Pending
    /\ observed = [on |-> FALSE]

\* one batch production record at a time, while no usage record is stored
ResolveToolCall ==
    /\ store.mo_parts_usage = <<>>
    /\ \E items \in SeqsUpTo(ResolveItems, MaxResolveItems) :
        HandleToolCall("process_bpr", [mo_number |-> Str("MO-1"), completion_date |-> Str("2026-01-01"),
                                       gross_produced |-> Str("100"), parts_usage |-> Arr(items)])

NextResolve ==
    \/ InitializeServer
    \/ ResolveToolCall
    \/ ReturnToClient
    \/ BprFindMO
    \/ BprLookupBoms
    \/ BprLookupLots
    \/ BprLookupLabels
    \/ BprCreateUsage
    \/ BprUpdateMO

SpecResolve == InitResolve /\ [][NextResolve]_vars

(***************************************************************************)
(* Properties of the server (specification Spec)                           *)
(***************************************************************************)
InFlightOrDone == call.pc # "idle"
\* the command the call was routed by; the tool name when it was not routed
RoutedCommand == IF Has(call, "req") THEN call.req.command ELSE call.toolName
IsDone(command) == call.pc = "done" /\ RoutedCommand = command
Sent(method) == SelectIdx(outbound, {i \in DOMAIN outbound : outbound[i].method = method}, 1)
AllOk(log) == \A i \in DOMAIN log : log[i].reply = "ok_json"
Configured(n) == n \in Range(ALLOWED_TABLE_NAMES) /\ env.tables[n] # <<>>

\* the call names a table outside the enumeration, or one without a configured identifier
TableArgDisallowed ==
    /\ Has(call.args, "table")
    /\ call.args.table.type = "string"
    /\ ~Configured(call.args.table.val)

\* C1: every outbound request targets the identifier configured for a table
\* name of the static enumeration, and a read/create/update/delete/batch_create
\* naming a table outside the enumeration or without a configured identifier
\* sends no request at all.
C1_OnlyAllowListedTablesReached ==
    /\ \A i \in DOMAIN outbound :
          \E n \in Range(ALLOWED_TABLE_NAMES) :
              /\ Configured(n)
              /\ outbound[i].tableId = parseInt(env.tables[n])
              /\ outbound[i].tableId = tableMap[n]
    /\ (/\ InFlightOrDone
        /\ RoutedCommand \in {"read", "create", "update", "delete", "batch_create"}
        /\ TableArgDisallowed) => outbound = <<>>
C1_Witness ==
    /\ IsDone("batch_create")
    /\ call.args.table.val = "cycle_counts"
    /\ call.args.records.val # <<>>
    /\ response.success = FALSE
    /\ outbound = <<>>

\* C2: read, create, update and delete naming a table that is outside the static
\* enumeration, or in it without a configured identifier, return
\* UNAUTHORIZED_TABLE_ACCESS with the table name in details.table.
C2_DisallowedTableIsUnauthorized ==
    (/\ call.pc = "done"
     /\ RoutedCommand \in {"read", "create", "update", "delete"}
     /\ TableArgDisallowed
     /\ \A i \in DOMAIN Issues(call.args, SchemaOf(RoutedCommand)) :
           Issues(call.args, SchemaOf(RoutedCommand))[i] = "table")
    => /\ response.success = FALSE
       /\ response.error.code = "UNAUTHORIZED_TABLE_ACCESS"
       /\ Has(response.error, "details")
       /\ response.error.details.table = call.args.table.val

(***************************************************************************)
(* process_bpr seen from the store: what a request should resolve to       *)
(***************************************************************************)
\* the mappings the store serves on the first page of an unfiltered fetch
FirstPage(rows) == SubSeq(rows, 1, Min(Len(rows), RemotePageCap))
MappingIds == {store.fg_parts_mapping[i].id : i \in DOMAIN store.fg_parts_mapping}
Resolvable(bomId) ==
    \E m \in Range(FirstPage(store.fg_parts_mapping)) :
        m.id = bomId /\ Field(m, "Part", <<>>) # <<>> /\ Field(m, "Finished Good", <<>>) # <<>>
MappingOf(bomId) == CHOOSE m \in Range(FirstPage(store.fg_parts_mapping)) : m.id = bomId
MOsNumbered(moNumber) ==
    SelectIdx(store.manufacturing_orders,
              {i \in DOMAIN store.manufacturing_orders :
                  store.manufacturing_orders[i]["MO Number"] = moNumber}, 1)
BprTablesConfigured ==
    \A t \in {"manufacturing_orders", "fg_parts_mapping", "raw_material_lots",
              "label_inventory", "mo_parts_usage"} : tableMap[t] # 0
\* a process_bpr call that passed validation, and its request
IsBpr == InFlightOrDone /\ RoutedCommand = "process_bpr" /\ Has(call, "req")
BprItems == call.req.parts_usage
Writes == {i \in DOMAIN outbound : outbound[i].method # "GET"}

\* C3: process_bpr with at least one bom_id absent from the BOM-mapping table
\* creates no usage record and updates no Manufacturing Order, returns an
\* error, and - once the Manufacturing Order is found and the mappings are
\* fetched - that error is BOM_NOT_FOUND naming every unresolved bom_id.
C3_MissingBomIsAllOrNothing ==
    (IsBpr /\ \E i \in DOMAIN BprItems : BprItems[i].bom_id \notin MappingIds)
    => /\ Writes = {}
       /\ call.pc = "done" =>
            /\ response.success = FALSE
            /\ (Len(outbound) = 2 /\ AllOk(outbound)) =>
                  /\ response.error.code = "BOM_NOT_FOUND"
                  /\ response.error.message.ids =
                        SelectIdx(bomIdsOf(BprItems),
                                  {i \in DOMAIN BprItems : ~Resolvable(BprItems[i].bom_id)}, 1)
C3_Witness ==
    /\ IsBpr /\ call.pc = "done"
    /\ \E i, j \in DOMAIN BprItems : Resolvable(BprItems[i].bom_id) /\ BprItems[j].bom_id \notin MappingIds /\ i < j
    /\ response.success = FALSE
    /\ response.error.code = "BOM_NOT_FOUND"
    /\ Writes = {}

\* C4: a fully valid process_bpr request with N items, all remote calls
\* succeeding, issues exactly N creates on mo_parts_usage in input order, each
\* linking the resolved MO, then exactly one update of that MO with the fixed
\* status and deduction method, the date, the quantity and both flags true,
\* and reports parts_usage_created = N with N identifiers and mo_updated.
C4_ValidBprCreatesNThenUpdatesOnce ==
    (/\ IsBpr /\ call.pc = "done"
     /\ BprTablesConfigured
     /\ MOsNumbered(call.req.mo_number) # <<>>
     /\ \A i \in DOMAIN BprItems : Resolvable(BprItems[i].bom_id)
     /\ AllOk(outbound))
    => LET N == Len(BprItems)
           mo == MOsNumbered(call.req.mo_number)[1]
           creates == Sent("POST")
           updates == Sent("PATCH")
       IN  /\ Len(creates) = N
           /\ \A i \in 1..N :
                /\ creates[i].tableId = tableMap["mo_parts_usage"]
                /\ creates[i].body["Manufacturing Order"] = <<mo.id>>
                /\ creates[i].body["Parts"] = <<MappingOf(BprItems[i].bom_id)["Part"][1].id>>
                /\ creates[i].body["Actual Quantity Used"] = BprItems[i].quantity
           /\ Len(updates) = 1
           /\ Sent("DELETE") = <<>>
           /\ SubSeq(outbound, Len(outbound) - N, Len(outbound)) = creates \o updates
           /\ updates[1].tableId = tableMap["manufacturing_orders"]
           /\ updates[1].recordId = mo.id
           /\ updates[1].body =
                ("MO Status" :> 4554566) @@ ("Deduction Method" :> 4669016)
                @@ ("MFG Date Completed" :> call.req.completion_date)
                @@ ("Gross Produced" :> call.req.gross_produced)
                @@ ("Actual Usage Complete" :> TRUE) @@ ("MO Inventory Processed" :> TRUE)
           /\ response.success = TRUE
           /\ response.data.parts_usage_created = N
           /\ Len(response.data.parts_usage_ids) = N
           /\ response.data.mo_updated = TRUE
C4_Witness ==
    /\ IsBpr /\ call.pc = "done"
    /\ Len(BprItems) = 3
    /\ AllOk(outbound)
    /\ response.success = TRUE
    /\ response.data.parts_usage_created = 3
    /\ Len(Sent("POST")) = 3 /\ Len(Sent("PATCH")) = 1

\* C5: when the k-th usage-record creation of a process_bpr fails, nothing is
\* sent after it (no further creation, no MO update, no delete), the call
\* ends with an error envelope, and the k-1 records created before it are
\* still in the store.
FailedCreate(i) == outbound[i].method = "POST" /\ outbound[i].reply \notin {"ok_json", "ok_text"}
StoredUsage(body) ==
    \E row \in Range(store.mo_parts_usage) : \A f \in DOMAIN body : Has(row, f) /\ row[f] = body[f]
C5_FailedCreateStopsTheWorkflow ==
    IsBpr =>
        \A k \in DOMAIN outbound :
            FailedCreate(k) =>
                /\ k = Len(outbound)
                /\ call.pc = "done"
                /\ response.success = FALSE
                /\ Sent("PATCH") = <<>> /\ Sent("DELETE") = <<>>
                /\ \A j \in 1..(k - 1) : outbound[j].method = "POST" => StoredUsage(outbound[j].body)
C5_Witness ==
    /\ IsBpr /\ call.pc = "done"
    /\ Len(Sent("POST")) = 2
    /\ FailedCreate(Len(outbound))
    /\ ~FailedCreate(Len(outbound) - 1)
    /\ Len(BprItems) = 3
    /\ response.success = FALSE

\* C9: a read never asks the store for more than the cap of 25 records: a
\* requested size above the cap (or no size) is sent as exactly the cap, and
\* the metadata.size of the response equals the size that was sent.
RequestedSize == IF Has(call.args, "size") THEN call.args.size.val ELSE 100
IsSuccessEnvelope(r) ==
    /\ {"success", "data"} \subseteq DOMAIN r
    /\ DOMAIN r \subseteq {"success", "data", "metadata"}
    /\ r.success = TRUE
IsErrorEnvelope(r) ==
    /\ DOMAIN r = {"success", "error"}
    /\ r.success = FALSE
    /\ {"code", "message"} \subseteq DOMAIN r.error
    /\ DOMAIN r.error \subseteq {"code", "message", "details"}
C10_AlwaysAnEnvelope ==
    /\ call.pc = "done" => IsSuccessEnvelope(response) \/ IsErrorEnvelope(response)
    /\ call.pc # "done" => response = Pending
C10_Witness ==
    /\ IsDone("search_parts")
    /\ outbound # <<>>
    /\ outbound[Len(outbound)].reply = "ok_text"
    /\ IsErrorEnvelope(response)
    /\ response.error.code = "INTERNAL_ERROR"

(***************************************************************************)
(* Properties of get_bom (specification SpecBOM)                           *)
(***************************************************************************)
Succeeded(e) == e.response.success = TRUE
ByFgId(e) == e.toolName = "get_bom" /\ DOMAIN e.args = {"fg_id"}
ByISKU(e) == e.toolName = "get_bom" /\ DOMAIN e.args = {"isku"}
\* the Finished Goods of the store whose iSKU is Y, in table order
WithISKU(Y) == SelectIdx(store.finished_goods,
                         {i \in DOMAIN store.finished_goods : store.finished_goods[i].iSKU = Y}, 1)
HasISKU(X, Y) == \E i \in DOMAIN WithISKU(Y) : WithISKU(Y)[i].id = X
FirstWithISKU(X, Y) == WithISKU(Y) # <<>> /\ WithISKU(Y)[1].id = X
SameParts(a, b) ==
    /\ a.response.data.parts = b.response.data.parts
    /\ a.response.data.total_parts = b.response.data.total_parts

\* C6 as stated: whenever Finished Good X has iSKU Y in the store, a
\* successful get_bom({fg_id: X}) and a successful get_bom({isku: Y}) return
\* the same parts list and the same total_parts.
C6_SamePartsByIdAndByISKU ==
    \A i, j \in DOMAIN observed.log :
        LET a == observed.log[i]
            b == observed.log[j]
        IN  (/\ ByFgId(a) /\ ByISKU(b) /\ Succeeded(a) /\ Succeeded(b)
             /\ HasISKU(a.args.fg_id.val, b.args.isku.val)) => SameParts(a, b)

\* C6 amended: whenever Finished Good X is the first Finished Good of the
\* store with iSKU Y (the record the exact-match lookup resolves Y to), a
\* successful get_bom({fg_id: X}) and a successful get_bom({isku: Y}) return
\* the same parts list, in the same order, and the same total_parts.
C6_SamePartsForTheResolvedFinishedGood ==
    \A i, j \in DOMAIN observed.log :
        LET a == observed.log[i]
            b == observed.log[j]
        IN  (/\ ByFgId(a) /\ ByISKU(b) /\ Succeeded(a) /\ Succeeded(b)
             /\ FirstWithISKU(a.args.fg_id.val, b.args.isku.val)) => SameParts(a, b)
C6_Witness ==
    /\ Len(observed.log) = 2
    /\ ByFgId(observed.log[1]) /\ ByISKU(observed.log[2])
    /\ Succeeded(observed.log[1]) /\ Succeeded(observed.log[2])
    /\ observed.log[1].args.fg_id.val = 22
    /\ FirstWithISKU(22, observed.log[2].args.isku.val)
    /\ observed.log[2].response.data.total_parts = 1
    /\ SameParts(observed.log[1], observed.log[2])

InGetBom == InFlightOrDone /\ RoutedCommand = "get_bom" /\ Has(call, "req")
GivenFgId == Has(call.req, "fg_id")
GivenISKU == Has(call.req, "isku") /\ call.req.isku # ""

\* C18: get_bom with neither an fg_id nor a non-empty isku sends nothing
\* and ends with INVALID_REQUEST; with an isku only, its first request is
\* the exact-match read of one finished_goods record, and when that read
\* finds no record the call ends with FG_NOT_FOUND after that one request;
\* with an fg_id, no request goes to finished_goods and the fg_id is used.
C18_GetBomResolution ==
    InGetBom =>
        /\ (~GivenFgId /\ ~GivenISKU) =>
              /\ outbound = <<>>
              /\ call.pc = "done" => IsErrorEnvelope(response) /\ response.error.code = "INVALID_REQUEST"
        /\ (~GivenFgId /\ GivenISKU /\ outbound # <<>>) =>
              /\ outbound[1].method = "GET"
              /\ outbound[1].tableId = RemoteTableIds.finished_goods
              /\ outbound[1].filters = ("iSKU" :> call.req.isku)
              /\ outbound[1].page = 1 /\ outbound[1].size = 1
              /\ (outbound[1].reply = "ok_json" /\ WithISKU(call.req.isku) = <<>>) =>
                    /\ call.pc = "done"
                    /\ Len(outbound) = 1
                    /\ IsErrorEnvelope(response) /\ response.error.code = "FG_NOT_FOUND"
        /\ GivenFgId =>
              /\ \A i \in DOMAIN outbound : outbound[i].tableId = RemoteTableIds.fg_parts_mapping
              /\ (call.pc = "done" /\ response.success = TRUE) => response.data.fg_id = call.req.fg_id
C18_Witness ==
    /\ InGetBom /\ call.pc = "done"
    /\ ~GivenFgId /\ GivenISKU
    /\ Len(outbound) = 1
    /\ outbound[1].reply = "ok_json"
    /\ response.error.code = "FG_NOT_FOUND"

FetchedMappings == FirstPage(store.fg_parts_mapping)
LinksTarget(mapping, target) ==
    /\ Has(mapping, "Finished Good") /\ mapping["Finished Good"] # <<>>
    /\ mapping["Finished Good"][1].id = target
BomMembers(target) ==
    SelectIdx(FetchedMappings,
              {k \in DOMAIN FetchedMappings :
                  /\ LinksTarget(FetchedMappings[k], target)
                  /\ Has(FetchedMappings[k], "Part") /\ FetchedMappings[k]["Part"] # <<>>}, 1)

\* C25: the parts list of a successful get_bom has, in fetched order, one
\* item for each fetched mapping whose first Finished Good entry is the
\* target and whose Part link is not empty (a matching mapping without a
\* Part is left out and raises no error), and total_parts is its length.
C25_PartsAreTheLinkedMappings ==
    (InGetBom /\ call.pc = "done") =>
        /\ (outbound # <<>> /\ AllOk(outbound)
              /\ outbound[Len(outbound)].tableId = RemoteTableIds.fg_parts_mapping)
           => response.success = TRUE
        /\ response.success = TRUE =>
              LET parts == response.data.parts
                  members == BomMembers(response.data.fg_id)
              IN  /\ Len(parts) = Len(members)
                  /\ \A i \in DOMAIN parts :
                        /\ parts[i].mapping_id = members[i].id
                        /\ parts[i].part_id = members[i]["Part"][1].id
                  /\ response.data.total_parts = Len(parts)
C25_Witness ==
    /\ InGetBom /\ call.pc = "done" /\ response.success = TRUE
    /\ Len(response.data.parts) = 2
    /\ Len(store.fg_parts_mapping) > Len(FetchedMappings)
    /\ \E k \in DOMAIN FetchedMappings :
          /\ LinksTarget(FetchedMappings[k], response.data.fg_id)
          /\ FetchedMappings[k]["Part"] = <<>>
    /\ \E k \in DOMAIN FetchedMappings :
          /\ ~LinksTarget(FetchedMappings[k], 22)
          /\ \E e \in DOMAIN FetchedMappings[k]["Finished Good"] : FetchedMappings[k]["Finished Good"][e].id = 22

(***************************************************************************)
(* Properties of search_parts (specification SpecSearch)                   *)
(***************************************************************************)
NameKey(part) == toLowerCase(partNameOf(part))
\* the rows of the parts table whose name equals the term, case aside
ExactRows(term) ==
    {i \in DOMAIN store.parts : partNameOf(store.parts[i]) # <<>> /\ NameKey(store.parts[i]) = toLowerCase(term)}
\* the rows whose name is not the term but contains it or is contained in it
SubstringRows(term) ==
    {i \in DOMAIN store.parts \ ExactRows(term) :
        /\ partNameOf(store.parts[i]) # <<>>
        /\ \/ includes(NameKey(store.parts[i]), toLowerCase(term))
           \/ includes(toLowerCase(term), NameKey(store.parts[i]))}

\* C7: a term of a successful search_parts call that equals, case aside, the
\* name of a part is reported found as a part of exactly that name, never as
\* a part whose name merely contains the term or is contained in it.
C7_ExactMatchWins ==
    (IsDone("search_parts") /\ response.success = TRUE) =>
        \A k \in DOMAIN call.req.search_terms :
            LET term == call.req.search_terms[k]
                res == response.data.results[k]
            IN  ExactRows(term) # {} =>
                    /\ res.found = TRUE
                    /\ res.search_term = term
                    /\ \E i \in ExactRows(term) :
                          /\ res.part_id = store.parts[i].id
                          /\ res.part_name = partNameOf(store.parts[i])
C7_Witness ==
    /\ IsDone("search_parts") /\ response.success = TRUE
    /\ \E k \in DOMAIN call.req.search_terms :
          LET term == call.req.search_terms[k]
          IN  \E j \in ExactRows(term), i \in SubstringRows(term) :
                 /\ i < j
                 /\ partNameOf(store.parts[j]) # term
                 /\ response.data.results[k].part_id = store.parts[j].id

\* C8: two successful search_parts calls with the same search_terms against
\* the same parts table return the same results, found_count and not_found,
\* and a search_parts call sends the store nothing but reads.
SearchOf(e) == e.toolName = "search_parts"
NonSuccessStatus == {"err_json", "err_text", "err_badjson"}
OneRequestTools == {"read", "create", "update", "delete"}

\* C11: a request the store answered with a non-success status is reported
\* as BASEROW_API_ERROR carrying the status code and the response body, also
\* when the body cannot be parsed, and a request that got no response is
\* reported as CONNECTION_ERROR.
C11_StatusNeverReportedAsConnectionError ==
    (call.pc = "done" /\ RoutedCommand \in OneRequestTools /\ Len(outbound) = 1) =>
        /\ outbound[1].reply \in NonSuccessStatus =>
              /\ IsErrorEnvelope(response)
              /\ response.error.code = "BASEROW_API_ERROR"
              /\ Has(response.error, "details")
              /\ {"statusCode", "response"} \subseteq DOMAIN response.error.details
        /\ outbound[1].reply = "no_response" =>
              /\ IsErrorEnvelope(response)
              /\ response.error.code = "CONNECTION_ERROR"

(***************************************************************************)
(* Properties of the request validator (specification Spec)                *)
(***************************************************************************)
KnownTool == call.toolName \in Commands
\* the fields of the arguments that fail the schema of the tool's command
ArgumentIssues == Issues(call.args, SchemaOf(call.toolName))

\* C12: a call of a known tool whose arguments violate the schema of the
\* tool's command ends at once with VALIDATION_ERROR listing the violating
\* fields, and sends the store nothing.
C12_InvalidArgumentsAreRejectedUnexecuted ==
    (InFlightOrDone /\ KnownTool /\ ArgumentIssues # <<>>) =>
        /\ call.pc = "done"
        /\ outbound = <<>>
        /\ IsErrorEnvelope(response)
        /\ response.error.code = "VALIDATION_ERROR"
        /\ response.error.message = ArgumentIssues

\* C13: a call whose tool name is not one of the nine commands ends at once
\* with an error whose code is not VALIDATION_ERROR, whatever its arguments,
\* and sends the store nothing.
C13_UnknownToolIsNotAValidationFailure ==
    (InFlightOrDone /\ ~KnownTool) =>
        /\ call.pc = "done"
        /\ outbound = <<>>
        /\ IsErrorEnvelope(response)
        /\ response.error.code # "VALIDATION_ERROR"

(***************************************************************************)
(* Properties of batch_create (specification SpecBatch)                    *)
(***************************************************************************)
InBatch == InFlightOrDone /\ RoutedCommand = "batch_create" /\ Has(call, "req")
\* the create resolved: the store answered 2xx and the body could be read
Resolved(entry) == entry.reply \in {"ok_json", "ok_text"}
FailedCreates == {i \in DOMAIN outbound : ~Resolved(outbound[i])}
ChunkEnd(i) == ((i - 1) \div 10 + 1) * 10

\* C14: the creates awaited together are at most 10, they are the next
\* records of the request, and they are issued only when every create of
\* the chunks before has been sent and has resolved.
C14_ChunksOfTenOneAfterAnother ==
    (InBatch /\ call.pc = "batch_await") =>
        /\ Len(call.inFlight) >= 1 /\ Len(call.inFlight) <= 10
        /\ call.i % 10 = 0
        /\ Len(outbound) = call.i
        /\ \A i \in DOMAIN outbound : Resolved(outbound[i])
        /\ \A j \in DOMAIN call.inFlight : call.inFlight[j] = call.req.records[call.i + j]
C14_Witness ==
    /\ InBatch /\ call.pc = "batch_await"
    /\ Len(call.req.records) = 12
    /\ call.i = 10
    /\ Len(call.inFlight) = 2
    /\ Len(outbound) = 10

\* C15: when a create of a batch_create has failed, the finished call holds
\* an error envelope; no create of a later chunk was sent; every request
\* sent is the create of one record, sent once; nothing was deleted, and
\* the rows of the creates the store accepted are in the table.
C15_FailedBatchFailsWhole ==
    (InBatch /\ FailedCreates # {}) =>
        /\ call.pc = "done"
        /\ IsErrorEnvelope(response)
        /\ \A f \in FailedCreates : Len(outbound) <= ChunkEnd(f)
        /\ Len(outbound) <= Len(call.req.records)
        /\ \A i \in DOMAIN outbound :
              outbound[i].method = "POST" /\ outbound[i].body = call.req.records[i]
        /\ Len(store.inventory_transactions) =
              Cardinality({i \in DOMAIN outbound : ReplyOk(outbound[i].reply)})
C15_Witness ==
    /\ InBatch /\ call.pc = "done"
    /\ Len(call.req.records) = 12
    /\ Len(outbound) = 12
    /\ FailedCreates = {11}
    /\ outbound[11].reply = "err_json"
    /\ Len(store.inventory_transactions) = 11
    /\ IsErrorEnvelope(response)

(***************************************************************************)
(* Properties of startup (specification Spec)                              *)
(***************************************************************************)
Started == phase # "boot"
Present(n) == env.tables[n] # <<>>
\* the text is the decimal notation of a positive integer
IsPositiveInteger(str) ==
    /\ str # <<>>
    /\ \A i \in DOMAIN str : IsDigit(str[i])
    /\ \E i \in DOMAIN str : str[i] # "0"
Malformed(n) == Present(n) /\ ~IsPositiveInteger(env.tables[n])

\* C16: initialize fails exactly when an identifier is present without being
\* a positive integer or when no identifier is present at all; when it
\* succeeds, exactly the tables with an identifier are allowed.
C16_InitializeFailsOnlyOnMalformedOrEmpty ==
    Started =>
        /\ ~initialized <=>
              \/ \E n \in Range(TABLE_CONFIGS) : Malformed(n)
              \/ \A n \in Range(TABLE_CONFIGS) : ~Present(n)
        /\ initialized =>
              \A n \in Range(ALLOWED_TABLE_NAMES) : isTableAllowed(n) <=> Present(n)

\* C17: a tool call is handled only by a server whose allow-list was
\* initialized and whose token is present; a startup whose allow-list
\* initialization failed or whose token is absent ends with the process
\* exited, before any call; and once startup is over the allow-list is not
\* initialized again.
C17_ServesOnlyAfterSuccessfulStartup ==
    /\ [](InFlightOrDone => phase = "serving")
    /\ [](phase = "serving" => initialized /\ env.token)
    /\ [](Started /\ (~initialized \/ ~env.token) => phase = "exited" /\ call.pc = "idle")
    /\ [][Started => (initialized' = initialized /\ tableMap' = tableMap /\ phase' = phase)]_vars
C17_Witness ==
    /\ phase = "exited"
    /\ initialized
    /\ ~env.token
    /\ call.pc = "idle"


\* C19: the results list of every successful read response, serialized,
\* is at most MAX_RESPONSE_CHARS characters long.
C19_ReadStaysWithinBudget ==
    (IsDone("read") /\ response.success = TRUE) =>
        jsonLength(response.data.results) <= MAX_RESPONSE_CHARS


(***************************************************************************)
(* The order of the requests of process_bpr                                *)
(***************************************************************************)
NeedsLotFetch ==
    \E i \in DOMAIN BprItems :
        /\ Has(BprItems[i], "lot_number") /\ BprItems[i].lot_number # ""
        /\ ~Has(BprItems[i], "lot_id")
NeedsLabelFetch ==
    \E i \in DOMAIN BprItems :
        /\ Has(BprItems[i], "label_code") /\ BprItems[i].label_code # <<>>
        /\ ~Has(BprItems[i], "label_id")
CallKind(method, table) == [method |-> method, tableId |-> tableMap[table]]
CallKindOf(entry) == [method |-> entry.method, tableId |-> entry.tableId]
\* the requests of a whole process_bpr, in order
ExpectedCalls ==
    <<CallKind("GET", "manufacturing_orders"), CallKind("GET", "fg_parts_mapping")>>
    \o (IF NeedsLotFetch THEN <<CallKind("GET", "raw_material_lots")>> ELSE <<>>)
    \o (IF NeedsLabelFetch THEN <<CallKind("GET", "label_inventory")>> ELSE <<>>)
    \o [i \in DOMAIN BprItems |-> CallKind("POST", "mo_parts_usage")]
    \o <<CallKind("PATCH", "manufacturing_orders")>>
Answered2xx(entry) == entry.reply \in {"ok_json", "ok_text"}
OrderedBprCalls ==
    IsBpr =>
        /\ Len(outbound) <= Len(ExpectedCalls)
        /\ \A i \in DOMAIN outbound : CallKindOf(outbound[i]) = ExpectedCalls[i]
        /\ \A i \in DOMAIN outbound : i < Len(outbound) => Answered2xx(outbound[i])
        /\ outbound # <<>> =>
              /\ outbound[1].filters = ("MO Number" :> call.req.mo_number)
              /\ outbound[1].page = 1 /\ outbound[1].size = 1
        /\ \A i \in DOMAIN Sent("POST") :
              Sent("POST")[i].body["Actual Quantity Used"] = BprItems[i].quantity
        /\ (call.pc = "done" /\ response.success = TRUE) => Len(outbound) = Len(ExpectedCalls)
        /\ (outbound # <<>> /\ outbound[1].reply = "ok_json" /\ MOsNumbered(call.req.mo_number) = <<>>) =>
              /\ call.pc = "done"
              /\ Len(outbound) = 1
              /\ IsErrorEnvelope(response) /\ response.error.code = "MO_NOT_FOUND"

\* C20: the requests of process_bpr go out one per step and each after the
\* one before it was answered, in the order MO lookup, BOM-mapping fetch,
\* lot fetch (only when an item has a lot_number without a lot_id), label
\* fetch (only when an item has a label_code without a label_id), the
\* creations in input order, one MO update; when the MO lookup finds no
\* record the call ends with MO_NOT_FOUND after that one request.
C20_BprCallsInOrderOneAtATime ==
    /\ []OrderedBprCalls
    /\ [][IsBpr' => Len(outbound') <= Len(outbound) + 1]_vars
C20_Witness ==
    /\ IsBpr /\ call.pc = "done" /\ response.success = TRUE
    /\ Len(BprItems) = 2
    /\ NeedsLotFetch /\ ~NeedsLabelFetch
    /\ \E i \in DOMAIN BprItems : Has(BprItems[i], "label_code")
    /\ Len(outbound) = 6


(***************************************************************************)
(* The links of the usage records of process_bpr                           *)
(***************************************************************************)
\* identifiers the caller put into the items under names the schema does not know
CallerLinkIds ==
    UNION {{call.args.parts_usage.val[i].val[f].val :
                f \in {"part_id", "fg_id", "mo_id"} \cap DOMAIN call.args.parts_usage.val[i].val} :
           i \in DOMAIN call.args.parts_usage.val}
LinkFields == {"Manufacturing Order", "Parts", "Finished Goods"}

\* C21: every usage record process_bpr creates links the first Part entry
\* and the first Finished Good entry of the mapping whose id is the item's
\* bom_id, and the Manufacturing Order found by its number; an identifier
\* the caller supplied for any of the three never reaches a record.
C21_UsageLinksComeFromTheMapping ==
    IsBpr =>
        \A i \in DOMAIN Sent("POST") :
            LET body == Sent("POST")[i].body
                mapping == MappingOf(BprItems[i].bom_id)
            IN  /\ body["Parts"] = <<mapping["Part"][1].id>>
                /\ body["Finished Goods"] = <<mapping["Finished Good"][1].id>>
                /\ body["Manufacturing Order"] = <<MOsNumbered(call.req.mo_number)[1].id>>
                /\ \A f \in LinkFields : \A x \in CallerLinkIds : body[f] # <<x>>
C21_Witness ==
    /\ IsBpr /\ call.pc = "done" /\ response.success = TRUE
    /\ CallerLinkIds # {}
    /\ \E i \in DOMAIN Sent("POST") :
          /\ Len(MappingOf(BprItems[i].bom_id)["Part"]) > 1
          /\ Sent("POST")[i].body["Parts"] = <<12>>
          /\ Sent("POST")[i].body["Finished Goods"] = <<21>>


(***************************************************************************)
(* The lot and label links of the usage records (specification SpecResolve)*)
(***************************************************************************)
FetchedLots == FirstPage(store.raw_material_lots)
FetchedLabels == FirstPage(store.label_inventory)
ExactLotIds(lotNumber) ==
    {FetchedLots[k].id : k \in {k \in DOMAIN FetchedLots : FetchedLots[k]["Internal Lot Number"] = lotNumber}}
\* the display value of the first Part BOM ID entry of a label record; <<>> when it has none
DisplayValue(label) ==
    IF Has(label, "Part BOM ID") /\ label["Part BOM ID"] # <<>> THEN label["Part BOM ID"][1].value ELSE <<>>
CodeMatches(code, label) ==
    /\ DisplayValue(label) # <<>>
    /\ \/ toLowerCase(code) = toLowerCase(DisplayValue(label))
       \/ includes(toLowerCase(DisplayValue(label)), toLowerCase(code))
       \/ includes(toLowerCase(code), toLowerCase(DisplayValue(label)))
MatchingLabels(code) == {k \in DOMAIN FetchedLabels : CodeMatches(code, FetchedLabels[k])}
LotField == "RM Lot Inventory Used"
LabelField == "Label Inventory Used"
WantsLot(item) == Has(item, "lot_number") /\ item.lot_number # ""
WantsLabel(item) == Has(item, "label_code") /\ item.label_code # <<>>

FirstMatchingLabel(code) ==
    FetchedLabels[CHOOSE k \in MatchingLabels(code) : \A h \in MatchingLabels(code) : k <= h]

\* C23: for an item with a label_code and no label_id, when some fetched
\* label matches the code (equal to, containing or contained in the display
\* value of its first Part BOM ID entry, letter case aside), the created
\* usage record links the first such label in fetched order.
C23_FirstMatchingLabelWins ==
    IsBpr =>
        \A i \in DOMAIN Sent("POST") :
            LET body == Sent("POST")[i].body
                item == BprItems[i]
            IN  (WantsLabel(item) /\ ~Has(item, "label_id") /\ MatchingLabels(item.label_code) # {})
                => /\ Has(body, LabelField)
                   /\ body[LabelField] = <<FirstMatchingLabel(item.label_code).id>>


(***************************************************************************)
(* The paging loop of search_parts (specification SpecPagingLive)          *)
(***************************************************************************)
InSearch == InFlightOrDone /\ RoutedCommand = "search_parts" /\ Has(call, "req")
\* the list response the store gave to the i-th request of the call
PageServed(i) == BodyFor(store, outbound[i])
HasFurtherPage(i) == outbound[i].reply = "ok_json" /\ PageServed(i).next /\ PageServed(i).results # <<>>
PagesInOrder ==
    InSearch =>
        /\ Len(outbound) <= 50
        /\ \A i \in DOMAIN outbound :
              /\ outbound[i].method = "GET"
              /\ outbound[i].tableId = tableMap["parts"]
              /\ outbound[i].page = i
              /\ outbound[i].size = 200
        /\ \A i \in DOMAIN outbound : i < Len(outbound) => HasFurtherPage(i)
        /\ (call.pc = "search_parts" /\ outbound # <<>>) =>
              HasFurtherPage(Len(outbound)) /\ Len(outbound) < 50
        /\ (call.pc = "done" /\ AllOk(outbound)) =>
              /\ outbound # <<>>
              /\ response.success = TRUE
              /\ Len(outbound) = 50 \/ ~HasFurtherPage(Len(outbound))

\* C24: search_parts fetches the parts pages 1, 2, ... one per step, stops
\* after the first page without a next page or without rows, fetches at
\* most 50 pages, answers with success when the 50th page still names a
\* next one, and every search_parts call ends.
C24_PagingStopsAndTerminates ==
    /\ []PagesInOrder
    /\ [][InSearch' => Len(outbound') <= Len(outbound) + 1]_vars
    /\ (call.pc = "search_parts") ~> (call.pc = "done")
C24_Witness ==
    /\ InSearch /\ call.pc = "done"
    /\ Len(outbound) = 50
    /\ HasFurtherPage(50)
    /\ response.success = TRUE


(***************************************************************************)
(* The response shaper (specification SpecShaper)                          *)
(***************************************************************************)
Shaped == call.pc = "shaped"
\* the first 25 records of the input, each simplified
Simplified25 ==
    [i \in 1..Min(Len(call.input.results), 25) |-> simplifyRecord(call.input.results[i])]
OverBudget == jsonLength(Simplified25) > 50000 /\ Len(Simplified25) > 10

\* C26: the response shaper returns at most 25 records, exactly the first
\* 10 with the truncation note when the simplified list is longer than
\* 50000 characters and longer than 10 records, a note whenever it returns
\* fewer records than it received, and the count of the store unchanged.
C26_ShaperLimitsAndNotes ==
    Shaped =>
        /\ Len(response.results) <= 25
        /\ response.count = call.input.count
        /\ OverBudget => Len(response.results) = 10 /\ Has(response, "_note") /\ response._note = "truncated"
        /\ ~OverBudget => Len(response.results) = Len(Simplified25)
        /\ Len(response.results) < Len(call.input.results) => Has(response, "_note")
        /\ \A i \in DOMAIN response.results : response.results[i] = Simplified25[i]
C26_Witness ==
    /\ Shaped
    /\ Len(call.input.results) = 26
    /\ OverBudget
    /\ Len(response.results) = 10
    /\ response._note = "truncated"
    /\ response.count = 126


(***************************************************************************)
(* The variants of process_bpr compared (specification SpecResolve)        *)
(***************************************************************************)
StdioOutcome == IF response.success = TRUE THEN "success" ELSE response.error.code
StdioCreates == [i \in DOMAIN Sent("POST") |-> Sent("POST")[i].body]
StdioUpdates == [i \in DOMAIN Sent("PATCH") |-> [recordId |-> Sent("PATCH")[i].recordId, body |-> Sent("PATCH")[i].body]]

\* C27: for a process_bpr request whose remote calls all succeed, the
\* HTTP/Express and edge-worker variants end with the outcome of the stdio
\* handler (success, or the same error code) and send the same creates and
\* the same update.
C27_VariantsAgree ==
    (IsBpr /\ call.pc = "done" /\ AllOk(outbound)) =>
        LET variant == railwayProcessBPR(store, call.req)
        IN  /\ variant.outcome = StdioOutcome
            /\ variant.creates = StdioCreates
            /\ variant.updates = StdioUpdates


(***************************************************************************)
(* The allow-list after startup (specification SpecAllowList)              *)
(***************************************************************************)
GateNames == Range(ALLOWED_TABLE_NAMES) \cup {"secret_data"}

LacksALink(bomId) ==
    \E m \in Range(FetchedMappings) :
        /\ m.id = bomId
        /\ Field(m, "Part", <<>>) = <<>> \/ Field(m, "Finished Good", <<>>) = <<>>
BeyondFirstPage(bomId) ==
    \E k \in DOMAIN store.fg_parts_mapping :
        k > Len(FetchedMappings) /\ store.fg_parts_mapping[k].id = bomId
Unusable(bomId) == LacksALink(bomId) \/ BeyondFirstPage(bomId)

\* C29: a process_bpr with an item whose mapping is stored but lacks its
\* Part or Finished Good link, or lies beyond the fetched page, writes
\* nothing and, once the MO is found and the mappings are fetched, ends
\* with BOM_NOT_FOUND listing every such bom_id beside the absent ones.
C29_UnusableMappingIsNotFound ==
    (IsBpr /\ \E i \in DOMAIN BprItems : Unusable(BprItems[i].bom_id))
    => /\ Writes = {}
       /\ call.pc = "done" =>
            /\ response.success = FALSE
            /\ (Len(outbound) = 2 /\ AllOk(outbound)) =>
                  /\ response.error.code = "BOM_NOT_FOUND"
                  /\ \A i \in DOMAIN BprItems :
                        (Unusable(BprItems[i].bom_id) \/ BprItems[i].bom_id \notin MappingIds)
                        <=> BprItems[i].bom_id \in Range(response.error.message.ids)
C29_Witness ==
    /\ IsBpr /\ call.pc = "done"
    /\ Len(BprItems) = 2
    /\ LacksALink(BprItems[1].bom_id) /\ BeyondFirstPage(BprItems[2].bom_id)
    /\ response.success = FALSE
    /\ response.error.code = "BOM_NOT_FOUND"
    /\ response.error.message.ids = <<BprItems[1].bom_id, BprItems[2].bom_id>>
    /\ Writes = {}


(***************************************************************************)
(* The same batch production record submitted twice.  The request handlers *)
(* are async functions on one event loop: a second tools/call is taken up  *)
(* while the first awaits the remote store, and the two advance one await  *)
(* at a time in any order.  `call`, `outbound` and `response` are those of *)
(* the invocation whose continuation runs next; `observed.other` holds the *)
(* other invocation, `observed.finished` the invocations that returned.    *)
(***************************************************************************)
TwiceOrders ==
    {MainStore.manufacturing_orders,
     <<[id |-> 101] @@ ("MO Number" :> "MO-1") @@ ("MO Status" :> MO_STATUS_CLOSED)
           @@ ("Gross Produced" :> "7") @@ ("Actual Usage Complete" :> TRUE)>>}
TwiceStores == {[MainStore EXCEPT !.manufacturing_orders = o] : o \in TwiceOrders}
TwiceItems ==
    {<<>>,
     <<Obj([bom_id |-> Num(1), quantity |-> Num(5)])>>,
     <<Obj([bom_id |-> Num(2), quantity |-> Num(1), lot_number |-> Str("L1")]),
       Obj([bom_id |-> Num(1), quantity |-> Num(2), label_code |-> Str(<<"b">>)])>>}
TwiceRequests ==
    {[mo_number |-> Str("MO-1"), completion_date |-> Str("2026-01-01"),
      gross_produced |-> Str("100"), parts_usage |-> Arr(items)] : items \in TwiceItems}
NoInvocation == [call |-> [pc |-> "idle"], outbound |-> <<>>, response |-> Pending]

InitTwice ==
    /\ env = [tables |-> EnvTables({"cycle_counts"}), token |-> TRUE]
    /\ phase = "boot"
    /\ initialized = FALSE
    /\ tableMap = NoTables
    /\ store \in TwiceStores
    /\ call = [pc |-> "idle"]
    /\ outbound = <<>>
    /\ response = Pending
    /\ \E args \in TwiceRequests :
          observed = [on |-> FALSE, args |-> args, initial |-> store,
                      other |-> NoInvocation, finished |-> <<>>]

Invocations ==
    Len(observed.finished) + (IF call.pc # "idle" THEN 1 ELSE 0)
        + (IF observed.other.call.pc # "idle" THEN 1 ELSE 0)

\* a tools/call with the request, at most twice
SubmitBpr ==
    /\ Invocations < 2
    /\ HandleToolCall("process_bpr", observed.args)

\* the event loop turns to the continuation of the other invocation
SwitchInvocation ==
    /\ observed.other.call.pc # "idle" \/ call.pc \notin {"idle", "done"}
    /\ call' = observed.other.call
    /\ outbound' = observed.other.outbound
    /\ response' = observed.other.response
    /\ observed' = [observed EXCEPT !.other = [call |-> call, outbound |-> outbound, response |-> response]]
    /\ UNCHANGED <<env, phase, initialized, tableMap, store>>

\* the CallTool request handler returns the response of the invocation
ReturnInvocation ==
    /\ call.pc = "done"
    /\ call' = [pc |-> "idle"]
    /\ outbound' = <<>>
    /\ response' = Pending
    /\ observed' = [observed EXCEPT !.finished = Append(@, [outbound |-> outbound, response |-> response])]
    /\ UNCHANGED <<env, phase, initialized, tableMap, store>>

NextTwice ==
    \/ InitializeServer
    \/ SubmitBpr
    \/ SwitchInvocation
    \/ ReturnInvocation
    \/ BprFindMO
    \/ BprLookupBoms
    \/ BprLookupLots
    \/ BprLookupLabels
    \/ BprCreateUsage
    \/ BprUpdateMO

SpecTwice == InitTwice /\ [][NextTwice]_vars


(***************************************************************************)
(* Repeated submission (specification SpecTwice)                           *)
(***************************************************************************)
Returned == observed.finished
InvocationSucceeded(inv) == Has(inv.response, "success") /\ inv.response.success = TRUE
Accepted(log, method) ==
    Cardinality({i \in DOMAIN log : log[i].method = method /\ ReplyOk(log[i].reply)})
TwiceN == Len(observed.args.parts_usage.val)
OrderNow == store.manufacturing_orders[1]
OrderAtStart == observed.initial.manufacturing_orders[1]
OrderClosedByBpr ==
    PatchedRow(OrderAtStart,
               updateData(observed.args.completion_date.val, observed.args.gross_produced.val))
AllSent == outbound \o observed.other.outbound
              \o (IF Returned = <<>> THEN <<>> ELSE Returned[1].outbound)
              \o (IF Len(Returned) < 2 THEN <<>> ELSE Returned[2].outbound)

\* C30: the status of the Manufacturing Order is never asked for nor looked
\* at: an invocation whose remote calls are all answered succeeds on an
\* open and on a closed order alike, each successful invocation of a
\* request with N items has N creations and one update accepted, two
\* successful invocations of the same request, in sequence or interleaved,
\* leave 2N further usage records and two updates, and from the first
\* success on the order is its initial row with the fields of the update
\* set, as after a single invocation.
C30_RepeatedBprAddsRecordsAndRewritesOrder ==
    /\ \A i \in DOMAIN AllSent :
          AllSent[i].method = "GET" => DOMAIN AllSent[i].filters \subseteq {"MO Number"}
    /\ (call.pc = "done" /\ AllOk(outbound)) =>
          /\ response.success = TRUE
          /\ response.data.parts_usage_created = TwiceN
    /\ \A k \in DOMAIN Returned :
          InvocationSucceeded(Returned[k]) =>
              /\ Returned[k].response.data.parts_usage_created = TwiceN
              /\ Accepted(Returned[k].outbound, "POST") = TwiceN
              /\ Accepted(Returned[k].outbound, "PATCH") = 1
    /\ (\E k \in DOMAIN Returned : InvocationSucceeded(Returned[k])) => OrderNow = OrderClosedByBpr
    /\ (Len(Returned) = 2 /\ InvocationSucceeded(Returned[1]) /\ InvocationSucceeded(Returned[2])) =>
          /\ Len(store.mo_parts_usage) = Len(observed.initial.mo_parts_usage) + 2 * TwiceN
          /\ Accepted(AllSent, "PATCH") = 2
          /\ OrderNow = OrderClosedByBpr
C30_Witness ==
    /\ OrderAtStart["MO Status"] = MO_STATUS_CLOSED
    /\ TwiceN = 2
    /\ Len(Returned) = 2 /\ InvocationSucceeded(Returned[1]) /\ InvocationSucceeded(Returned[2])
    /\ LET first == store.mo_parts_usage[1].id
       IN  /\ Returned[1].response.data.parts_usage_ids = <<first, first + 2>>
           /\ Returned[2].response.data.parts_usage_ids = <<first + 1, first + 3>>
    /\ Len(store.mo_parts_usage) = 4
    /\ OrderNow["Gross Produced"] = "100"

====
